---------------------------- MODULE Spec2Model ----------------------------
(***************************************************************************)
(* A model of inky-gigachad: the documentation chunker and RAG pipeline    *)
(* (lib/rag), the rule versioning server actions (app/actions/rule_actions)*)
(* and the repository onboarding action (saveRepositories).                *)
(*                                                                         *)
(* Text is a sequence of characters (integers); a JavaScript string index  *)
(* i (0-based) is element i+1 of the sequence.                             *)
(***************************************************************************)
EXTENDS Integers, Sequences, FiniteSets, TLC

VARIABLES
    \* chunkText's parameters and locals (lib/rag)
    text, chunkSize, overlap, start, iterations, chunks, spans, pc, result,
    \* the relational database (prisma): user and rule records, and the
    \* number of rule ids handed out so far
    users, rules, nextId,
    \* the repository records of the relational database
    repositories,
    \* the vector index (Pinecone): the records stored in it
    pinecone,
    \* the value returned by the last server action
    ret,
    \* the number of remote calls (embedding, vector index, LLM) that have failed
    faults,
    \* the copy of lib/rag in the build, and generateRulesWithRAG's arguments
    \* and locals while the last call was a call of it
    rag,
    \* the protocol endpoint: the request being answered, the response to it,
    \* and the steps the handler took for it
    req, resp, trace,
    \* the coding session records of the relational database
    sessions,
    \* the dashboard page in the browser: its React state
    ui,
    \* the event stream of the protocol endpoint's GET handler
    conn

chunkVars == <<text, chunkSize, overlap, start, iterations, chunks, spans, pc, result>>
dbVars == <<users, rules, nextId>>

mcpVars == <<req, resp, trace>>

appVars == <<sessions, ui, conn>>

nonChunkVars == <<dbVars, repositories, pinecone, ret, faults, rag, mcpVars, appVars>>

vars == <<chunkVars, dbVars, repositories, pinecone, ret, faults, rag, mcpVars, appVars>>

-----------------------------------------------------------------------------
(* Bounds of the model *)

\* longest text enumerated character by character
MaxLen == 5
\* largest chunkSize argument enumerated
MaxChunk == 4
\* largest overlap argument enumerated (above MaxChunk: overlap >= chunkSize happens)
MaxOverlap == 5
\* most rule records ever inserted
MaxRules == 3
\* most remote calls that fail in one run
MaxFaults == 1
\* most records the vector index holds
MaxVectors == 3
\* largest topK argument enumerated
MaxTopK == 1

\* saveRepositories calls that store a rule
MaxSaves == 2

\* Files in the listing of one repository
MaxFiles == 3
\* The tokens drawn in a run
MaxTokens == 3
\* Server actions running at the same time
MaxActions == 3
\* Coding sessions created in a run
MaxSessions == 2
\* Event streams opened in a run, and pings sent on one stream
MaxConns == 2
MaxPings == 2
\* getMCPConfig requests the dashboard issues in a run
MaxRequests == 3

(* Program constants *)

CHUNK_SIZE == 1000
CHUNK_OVERLAP == 200

Alphabet == {0, 1}

Min(a, b) == IF a < b THEN a ELSE b
Max(a, b) == IF a > b THEN a ELSE b

\* Math.ceil(a / b) for a >= 0, b >= 1
CeilDiv(a, b) == (a + b - 1) \div b

\* text.slice(from, to) for 0 <= from, to <= text.length
Slice(t, from, to) == SubSeq(t, from + 1, to)

-----------------------------------------------------------------------------
(* The database and the vector index *)

\* An optional value is the empty set (undefined / null) or a singleton.
Undefined == {}
Some(x) == {x}
\* opt ?? dflt
Coalesce(opt, dflt) == IF opt = Undefined THEN dflt ELSE CHOOSE x \in opt : TRUE

\* auth() gives the session's Clerk user id, or null when nobody is signed in
NoSession == "none"
ClerkIds == {"clerk_a", "clerk_b"}
Callers == ClerkIds \cup {NoSession}

\* The id the database gives a new user record (a cuid: unique per record)
UserIdOf(clerkId) == IF clerkId = "clerk_a" THEN "user_a" ELSE "user_b"
UserIds == {UserIdOf(c) : c \in ClerkIds}

\* getOrCreateUser: the record found for clerkId, or the one created for it
UserOf(clerkId) == [id |-> UserIdOf(clerkId), clerk_id |-> clerkId, mcp_access_token |-> Undefined]
UsersAfterGetOrCreate(clerkId) ==
    IF \E u \in users : u.clerk_id = clerkId THEN users ELSE users \cup {UserOf(clerkId)}

\* index.upsert([e]): e replaces the record of the same id in its namespace
Upsert(index, e) == {x \in index : ~(x.ns = e.ns /\ x.id = e.id)} \cup {e}

\* The namespace of a call on the index itself: index.upsert, index.query
DefaultNamespace == <<>>

\* No call has returned yet
NoRet == [success |-> FALSE, error |-> "", data |-> 0]
\* return { success: true, data }
Ok(data) == [success |-> TRUE, error |-> "", data |-> data]
\* return { success: false, error }
Fail(error) == [success |-> FALSE, error |-> error, data |-> 0]

\* A remote call fails only while the run's budget of failures lasts.
Faulty(outcome) == outcome # "ok"
FaultAllowed(outcome) == Faulty(outcome) => faults < MaxFaults
FaultsAfter(outcome) == IF Faulty(outcome) THEN faults + 1 ELSE faults

\* generateRulesWithRAG has not been called
\* No generateRulesWithRAG call is in progress; version is the copy of lib/rag in the build
RagIdle(version) == [called |-> FALSE, version |-> version]

NoRag == RagIdle("namespaced")

\* No request has reached the protocol endpoint
NoReq == [endpoint |-> "none"]
NoResp == [status |-> 0]

McpIdle ==
    /\ req = NoReq
    /\ resp = NoResp
    /\ trace = {}

\* No coding session exists, no dashboard is open and no event stream is connected
NoUi == [tab |-> "none"]
NoConn == [state |-> "none"]
AppIdle ==
    /\ sessions = {}
    /\ ui = NoUi
    /\ conn = NoConn

InitDb ==
    /\ users = {}
    /\ rules = {}
    /\ nextId = 1
    /\ repositories = {}
    /\ pinecone = {}
    /\ faults = 0

-----------------------------------------------------------------------------
(* chunkText *)

\* const safeOverlap = Math.min(overlap, Math.max(0, chunkSize - 1))
SafeOverlap(cs, ov) == Min(ov, Max(0, cs - 1))

\* const safeChunkSize = Math.max(1, chunkSize)
SafeChunkSize(cs) == Max(1, cs)

\* const maxIterations = Math.ceil(text.length / Math.max(1, safeChunkSize - safeOverlap)) + 10
MaxIterations(len, cs, ov) ==
    CeilDiv(len, Max(1, SafeChunkSize(cs) - SafeOverlap(cs, ov))) + 10

\* const end = Math.min(start + safeChunkSize, text.length)
ChunkEnd(st, cs, len) == Min(st + SafeChunkSize(cs), len)

\* The same step with the forward-progress safeguard left out.
NextStartNoGuard(st, end, so) == end - so

\* const nextStart = end - safeOverlap; start = nextStart <= start ? start + 1 : nextStart
NextStart(st, end, so) ==
    LET nextStart == end - so
    IN  IF nextStart <= st THEN st + 1 ELSE nextStart

\* The loop limit computed from the chunk size alone, the overlap forgotten.
LoopGuardNoOverlap(t, cs, ov, st, it) ==
    st < Len(t) /\ it < CeilDiv(Len(t), SafeChunkSize(cs))

\* while (start < text.length && iterations < maxIterations)
LoopGuard(t, cs, ov, st, it) ==
    st < Len(t) /\ it < MaxIterations(Len(t), cs, ov)

RECURSIVE ChunkLoopRun(_, _, _, _, _, _)
ChunkLoopRun(t, cs, ov, st, it, acc) ==
    IF LoopGuard(t, cs, ov, st, it)
    THEN LET end == ChunkEnd(st, cs, Len(t))
             chunk == Slice(t, st, end)
         IN  ChunkLoopRun(t, cs, ov, NextStart(st, end, SafeOverlap(cs, ov)), it + 1,
                          IF Len(chunk) > 0 THEN Append(acc, chunk) ELSE acc)
    ELSE acc

\* chunkText as a function of its arguments
chunkText(t, cs, ov) ==
    IF Len(t) = 0
    THEN <<>>
    ELSE LET r == ChunkLoopRun(t, cs, ov, 0, 0, <<>>)
         IN  IF Len(r) > 0 THEN r ELSE <<t>>

\* A text of n pairwise distinct characters
DistinctText(n) == [i \in 1..n |-> i + 1]

\* The 2500-character document of the end-to-end chunking scenario
ScenarioLen == 2 * CHUNK_SIZE + CHUNK_SIZE \div 2
ScenarioText == DistinctText(ScenarioLen)

Texts ==
    (UNION {[1..n -> Alphabet] : n \in 0..MaxLen}) \cup {DistinctText(n) : n \in 0..MaxLen}

ChunkInputs ==
    (Texts \X (0..MaxChunk) \X (0..MaxOverlap))
        \cup {<<ScenarioText, CHUNK_SIZE, CHUNK_OVERLAP>>}

InitChunk ==
    /\ \E in \in ChunkInputs :
          /\ text = in[1]
          /\ chunkSize = in[2]
          /\ overlap = in[3]
    /\ start = 0
    /\ iterations = 0
    /\ chunks = <<>>
    /\ spans = <<>>
    /\ pc = "call"
    /\ result = <<>>
    /\ InitDb
    /\ rag = NoRag
    /\ ret = NoRet
    /\ McpIdle
    /\ AppIdle

\* lines 13-29: the empty text returns [] at once, otherwise the loop starts
ChunkEntry ==
    /\ pc = "call"
    /\ pc' = IF Len(text) = 0 THEN "done" ELSE "loop"
    /\ UNCHANGED <<text, chunkSize, overlap, start, iterations, chunks, spans, result>>
    /\ UNCHANGED nonChunkVars

\* lines 31-49: one iteration of the while loop
ChunkLoop ==
    /\ pc = "loop"
    /\ LoopGuard(text, chunkSize, overlap, start, iterations)
    /\ LET end == ChunkEnd(start, chunkSize, Len(text))
           chunk == Slice(text, start, end)
       IN  /\ chunks' = IF Len(chunk) > 0 THEN Append(chunks, chunk) ELSE chunks
           /\ spans' = IF Len(chunk) > 0 THEN Append(spans, <<start, end>>) ELSE spans
           /\ start' = NextStart(start, end, SafeOverlap(chunkSize, overlap))
    /\ iterations' = iterations + 1
    /\ UNCHANGED <<text, chunkSize, overlap, pc, result>>
    /\ UNCHANGED nonChunkVars

\* lines 51-55: the loop has ended; return chunks, or [text] when none was made
ChunkReturn ==
    /\ pc = "loop"
    /\ ~LoopGuard(text, chunkSize, overlap, start, iterations)
    /\ result' = IF Len(chunks) > 0 THEN chunks ELSE <<text>>
    /\ pc' = "done"
    /\ UNCHANGED <<text, chunkSize, overlap, start, iterations, chunks, spans>>
    /\ UNCHANGED nonChunkVars

NextChunk == ChunkEntry \/ ChunkLoop \/ ChunkReturn

SpecChunk == InitChunk /\ [][NextChunk]_vars /\ WF_vars(NextChunk)

\* The step-by-step loop and the function agree.
ChunkRunAgrees == pc = "done" => result = chunkText(text, chunkSize, overlap)

-----------------------------------------------------------------------------
(* Rule server actions: createRule, updateRule *)

\* createRuleSchema: name and content are non-empty strings
CreateInputs ==
    { [name |-> "", content |-> "c1", repository_id |-> Undefined],
      [name |-> "n1", content |-> "c1", repository_id |-> Some("repo1")] }

ValidCreate(input) == input.name # "" /\ input.content # ""

\* updateRuleSchema: id, and optionally name, content (non-empty) and is_active
UpdatePatches ==
    { [name |-> Some("n2"), content |-> Undefined, is_active |-> Some(FALSE)],
      [name |-> Undefined, content |-> Some("c2"), is_active |-> Undefined],
      [name |-> Some(""), content |-> Some("c2"), is_active |-> Undefined] }

UpdateInputs ==
    { [id |-> i, name |-> p.name, content |-> p.content, is_active |-> p.is_active] :
        i \in 1..MaxRules, p \in UpdatePatches }

ValidUpdate(input) == input.name # Some("") /\ input.content # Some("")

\* How the indexing block after the insert ends: at the embedding call, at the
\* upsert (or obtaining the index for it), at the write-back of pinecone_id, or not
IndexOutcomes == {"ok", "embedding_failed", "upsert_failed", "writeback_failed"}

\* The vector record of a rule: id `rule_${rule.id}`, metadata as upserted
RuleVector(rule) ==
    [id |-> [kind |-> "rule", rule |-> rule.id],
     ns |-> DefaultNamespace,
     metadata |-> [rule_id |-> rule.id,
                   user_id |-> rule.user_id,
                   name |-> rule.name,
                   repository_id |-> Coalesce(rule.repository_id, ""),
                   version |-> rule.version,
                   type |-> "rule"]]

\* The index after the try block that embeds and upserts the rule
PineconeAfterIndexing(rule, outcome) ==
    IF outcome \in {"ok", "writeback_failed"} THEN Upsert(pinecone, RuleVector(rule)) ELSE pinecone

\* The rule record after the try block: pinecone_id is written back last
\* The record marked inactive when its indexing failed.
RuleAfterIndexingDeactivated(rule, outcome) ==
    IF outcome = "ok"
    THEN [rule EXCEPT !.pinecone_id = Some([kind |-> "rule", rule |-> rule.id])]
    ELSE [rule EXCEPT !.is_active = FALSE]

RuleAfterIndexing(rule, outcome) ==
    IF outcome = "ok"
    THEN [rule EXCEPT !.pinecone_id = Some([kind |-> "rule", rule |-> rule.id])]
    ELSE rule

\* prisma.rule.create of createRule
NewRule(id, user, validated) ==
    [id |-> id,
     user_id |-> user.id,
     repository_id |-> validated.repository_id,
     name |-> validated.name,
     content |-> validated.content,
     version |-> 1,
     parent_rule_id |-> Undefined,
     is_active |-> TRUE,
     pinecone_id |-> Undefined]

\* The new version that takes nothing from the previous one when the patch omits it.
NewVersionNoDefaults(id, user, existingRule, validated) ==
    [id |-> id,
     user_id |-> user.id,
     repository_id |-> existingRule.repository_id,
     name |-> Coalesce(validated.name, ""),
     content |-> Coalesce(validated.content, ""),
     version |-> existingRule.version + 1,
     parent_rule_id |-> Some(existingRule.id),
     is_active |-> Coalesce(validated.is_active, existingRule.is_active),
     pinecone_id |-> Undefined]

\* prisma.rule.create of updateRule: the new version
NewVersion(id, user, existingRule, validated) ==
    [id |-> id,
     user_id |-> user.id,
     repository_id |-> existingRule.repository_id,
     name |-> Coalesce(validated.name, existingRule.name),
     content |-> Coalesce(validated.content, existingRule.content),
     version |-> existingRule.version + 1,
     parent_rule_id |-> Some(existingRule.id),
     is_active |-> Coalesce(validated.is_active, existingRule.is_active),
     pinecone_id |-> Undefined]

\* The update written over the record it names.
RulesAfterUpdateInPlace(existingRule, newRule) ==
    (rules \ {existingRule}) \cup {[newRule EXCEPT !.id = existingRule.id]}

\* The rule table after updateRule's insert
RulesAfterUpdate(existingRule, newRule) == rules \cup {newRule}

\* prisma.rule.findFirst({ where: { id, user_id } })
FindRule(id, user) == {r \in rules : r.id = id /\ r.user_id = user.id}

\* lines 1166-1252
createRule(caller, input) ==
    IF ~ValidCreate(input)
    THEN /\ ret' = Fail("Validation failed")
         /\ UNCHANGED <<dbVars, pinecone, faults>>
    ELSE /\ nextId <= MaxRules
         /\ \E outcome \in IndexOutcomes :
              LET user == UserOf(caller)
                  rule == NewRule(nextId, user, input)
              IN  /\ FaultAllowed(outcome)
                  /\ users' = UsersAfterGetOrCreate(caller)
                  /\ rules' = rules \cup {RuleAfterIndexing(rule, outcome)}
                  /\ pinecone' = PineconeAfterIndexing(rule, outcome)
                  /\ nextId' = nextId + 1
                  /\ faults' = FaultsAfter(outcome)
                  /\ ret' = Ok(rule.id)

\* lines 1257-1341
updateRule(caller, input) ==
    IF ~ValidUpdate(input)
    THEN /\ ret' = Fail("Validation failed")
         /\ UNCHANGED <<dbVars, pinecone, faults>>
    ELSE IF FindRule(input.id, UserOf(caller)) = {}
    THEN /\ users' = UsersAfterGetOrCreate(caller)
         /\ ret' = Fail("Rule not found")
         /\ UNCHANGED <<rules, nextId, pinecone, faults>>
    ELSE /\ nextId <= MaxRules
         /\ \E outcome \in IndexOutcomes :
              LET user == UserOf(caller)
                  existingRule == CHOOSE r \in FindRule(input.id, user) : TRUE
                  newRule == NewVersion(nextId, user, existingRule, input)
              IN  /\ FaultAllowed(outcome)
                  /\ users' = UsersAfterGetOrCreate(caller)
                  /\ rules' = RulesAfterUpdate(existingRule, RuleAfterIndexing(newRule, outcome))
                  /\ pinecone' = PineconeAfterIndexing(newRule, outcome)
                  /\ nextId' = nextId + 1
                  /\ faults' = FaultsAfter(outcome)
                  /\ ret' = Ok(newRule.id)

\* if (!userId) return { success: false, error: "Not authenticated" }
NotAuthenticated ==
    /\ ret' = Fail("Not authenticated")
    /\ UNCHANGED <<dbVars, pinecone, faults>>

CreateRule ==
    /\ \E caller \in Callers :
          IF caller = NoSession
          THEN NotAuthenticated
          ELSE \E input \in CreateInputs : createRule(caller, input)
    /\ UNCHANGED <<chunkVars, appVars, repositories, rag, mcpVars>>

UpdateRule ==
    /\ \E caller \in Callers :
          IF caller = NoSession
          THEN NotAuthenticated
          ELSE \E input \in UpdateInputs : updateRule(caller, input)
    /\ UNCHANGED <<chunkVars, appVars, repositories, rag, mcpVars>>

\* No chunkText call is under way
ChunkIdle ==
    /\ text = <<>>
    /\ chunkSize = CHUNK_SIZE
    /\ overlap = CHUNK_OVERLAP
    /\ start = 0
    /\ iterations = 0
    /\ chunks = <<>>
    /\ spans = <<>>
    /\ pc = "idle"
    /\ result = <<>>

InitRules ==
    /\ ChunkIdle
    /\ InitDb
    /\ rag = NoRag
    /\ ret = NoRet
    /\ McpIdle
    /\ AppIdle

NextRules == CreateRule \/ UpdateRule

SpecRules == InitRules /\ [][NextRules]_vars

-----------------------------------------------------------------------------
(* lib/rag: indexMarkdownFilesToPinecone and generateRulesWithRAG *)

\* The repository holds two copies of lib/rag: one works in the caller's
\* namespace of the index, the other on the index itself.
RagVersions == {"namespaced", "shared"}

\* getUserPineconeNamespace(userId): the user's partition of the shared index
getUserPineconeNamespace(userId) == <<"user", userId>>

\* index.namespace(namespace) in one copy, index in the other
RagNamespace(version, userId) ==
    IF version = "namespaced" THEN getUserPineconeNamespace(userId) ELSE DefaultNamespace

Comma == ","

RECURSIVE JoinComma(_)
\* repositoryIds.join(",")
JoinComma(ids) ==
    IF Len(ids) = 0 THEN <<>>
    ELSE IF Len(ids) = 1 THEN ids[1]
    ELSE ids[1] \o <<Comma>> \o JoinComma(Tail(ids))

RECURSIVE SplitFrom(_, _, _)
SplitFrom(str, i, cur) ==
    IF i > Len(str) THEN <<cur>>
    ELSE IF str[i] = Comma THEN <<cur>> \o SplitFrom(str, i + 1, <<>>)
    ELSE SplitFrom(str, i + 1, Append(cur, str[i]))

\* repoIds.split(",")
SplitComma(str) == SplitFrom(str, 1, <<>>)

\* Repository ids (strings without a comma)
RepoId1 == <<"r", "1">>
RepoId2 == <<"r", "2">>

\* "\n\n---\n\n", as character codes
ContextSeparator == <<10, 10, 45, 45, 45, 10, 10>>

RECURSIVE JoinContext(_)
\* contextChunks.join("\n\n---\n\n")
JoinContext(cs) ==
    IF Len(cs) = 0 THEN <<>>
    ELSE IF Len(cs) = 1 THEN cs[1]
    ELSE cs[1] \o ContextSeparator \o JoinContext(Tail(cs))

\* Files handed to the indexer: two documents and one without content
FilePool ==
    { [path |-> <<"acme/app", "README.md">>, content |-> <<1, 2, 3>>],
      [path |-> <<"acme/app", "docs/a.md">>, content |-> <<4, 5>>],
      [path |-> <<"acme/app", "empty.md">>, content |-> <<>>] }

FileLists == {<<f>> : f \in FilePool} \cup {fs \in FilePool \X FilePool : fs[1] # fs[2]}

\* file.content.length > CHUNK_SIZE ? chunkText(file.content, CHUNK_SIZE, CHUNK_OVERLAP) : [file.content]
ChunksOf(file) ==
    IF Len(file.content) > CHUNK_SIZE
    THEN chunkText(file.content, CHUNK_SIZE, CHUNK_OVERLAP)
    ELSE <<file.content>>

\* The loop's work for one file: one item per chunk, or the file skipped as invalid
FileTasks(file) ==
    IF Len(file.content) = 0
    THEN <<[valid |-> FALSE, path |-> file.path, i |-> 0, total |-> 0, chunk |-> <<>>]>>
    ELSE LET cs == ChunksOf(file)
         IN  IF Len(cs) = 0
             THEN <<[valid |-> FALSE, path |-> file.path, i |-> 0, total |-> 0, chunk |-> <<>>]>>
             ELSE [k \in 1..Len(cs) |->
                     [valid |-> TRUE, path |-> file.path, i |-> k - 1, total |-> Len(cs), chunk |-> cs[k]]]

RECURSIVE AllTasks(_)
AllTasks(files) ==
    IF Len(files) = 0 THEN <<>> ELSE FileTasks(files[1]) \o AllTasks(Tail(files))

\* The record upserted for chunk i of a file
MarkdownVector(version, userId, repositoryIds, task) ==
    [id |-> [kind |-> "md", user |-> userId, path |-> task.path, chunk |-> task.i],
     ns |-> RagNamespace(version, userId),
     metadata |-> [user_id |-> userId,
                   type |-> "markdown",
                   file_path |-> task.path,
                   chunk_index |-> task.i,
                   total_chunks |-> task.total,
                   repository_ids |-> JoinComma(repositoryIds),
                   content |-> SubSeq(task.chunk, 1, Min(500, Len(task.chunk)))]]

RECURSIVE UpsertTasks(_, _, _, _, _, _, _)
\* The index after the loop over the files: the chunks in fails (positions in
\* the work list) failed at the embedding call or at the upsert
UpsertTasks(index, version, userId, repositoryIds, tasks, fails, k) ==
    IF k > Len(tasks) THEN index
    ELSE UpsertTasks(
            IF tasks[k].valid /\ k \notin fails
            THEN Upsert(index, MarkdownVector(version, userId, repositoryIds, tasks[k]))
            ELSE index,
            version, userId, repositoryIds, tasks, fails, k + 1)

ValidTasks(tasks) == {k \in 1..Len(tasks) : tasks[k].valid}

\* The counts of a loop that ends at the first chunk that fails
IndexCountsStopAtFailure(tasks, fails) ==
    LET stop == IF fails = {} THEN Len(tasks) + 1
                ELSE CHOOSE k \in fails : \A f \in fails : k <= f
    IN  [indexed |-> Cardinality({k \in ValidTasks(tasks) : k < stop}),
         failed |-> Cardinality({k \in 1..Len(tasks) : k <= stop /\ (k \in fails \/ ~tasks[k].valid)})]

\* indexed and failed, as counted by the loop
IndexCounts(tasks, fails) ==
    [indexed |-> Cardinality(ValidTasks(tasks) \ fails),
     failed |-> Cardinality(fails) + Cardinality({k \in 1..Len(tasks) : ~tasks[k].valid})]

\* The subsets of S with at most n elements
SubsetsUpTo(S, n) == {F \in SUBSET S : Cardinality(F) <= n}

\* indexMarkdownFilesToPinecone(files, userId, repositoryIds); getPineconeIndex,
\* called before the loop, throws out of the function
indexMarkdownFilesToPinecone(version, files, userId, repositoryIds) ==
    \/ /\ faults < MaxFaults
       /\ faults' = faults + 1
       /\ ret' = Fail("PINECONE_API_KEY environment variable is not set")
       /\ UNCHANGED pinecone
    \/ LET tasks == AllTasks(files)
       IN  \E fails \in SubsetsUpTo(ValidTasks(tasks), MaxFaults - faults) :
              /\ pinecone' = UpsertTasks(pinecone, version, userId, repositoryIds, tasks, fails, 1)
              /\ faults' = faults + Cardinality(fails)
              /\ ret' = Ok(IndexCounts(tasks, fails))

\* A filter that asks for the record type alone.
MatchesFilterTypeOnly(metadata, filter) == metadata.type = filter.type

\* Pinecone's metadata filter: every key of the filter equals the record's value
MatchesFilter(metadata, filter) ==
    \A k \in DOMAIN filter : k \in DOMAIN metadata /\ metadata[k] = filter[k]

\* The records a query in namespace ns with a filter can return
Eligible(index, ns, filter) == {e \in index : e.ns = ns /\ MatchesFilter(e.metadata, filter)}

\* The answers to a query: up to topK of the eligible records, in the order of
\* their similarity scores (any order, for the scores depend on the embedding)
QueryAnswers(index, ns, filter, topK) ==
    LET E == Eligible(index, ns, filter)
        n == Min(topK, Cardinality(E))
    IN  {m \in [1..n -> E] : \A i, j \in 1..n : i # j => m[i] # m[j]}

\* match.metadata.repository_ids shares an id with repositoryIds
RepoMatch(match, repositoryIds) ==
    LET repoIds == match.metadata.repository_ids
    IN  /\ repoIds # <<>>
        /\ \E i \in 1..Len(repositoryIds) :
              \E j \in 1..Len(SplitComma(repoIds)) : SplitComma(repoIds)[j] = repositoryIds[i]

RECURSIVE FilterByRepo(_, _)
\* searchResults.matches.filter(...) when repositoryIds is not empty
FilterByRepo(matches, repositoryIds) ==
    IF Len(repositoryIds) = 0 \/ Len(matches) = 0 THEN matches
    ELSE (IF RepoMatch(matches[1], repositoryIds) THEN <<matches[1]>> ELSE <<>>)
            \o FilterByRepo(Tail(matches), repositoryIds)

\* filteredResults.slice(0, topK)
ContextMatches(filteredResults, topK) == SubSeq(filteredResults, 1, Min(topK, Len(filteredResults)))

Whitespace == {" "}

RECURSIVE TrimStart(_)
TrimStart(str) ==
    IF Len(str) > 0 /\ str[1] \in Whitespace THEN TrimStart(Tail(str)) ELSE str

RECURSIVE TrimEnd(_)
TrimEnd(str) ==
    IF Len(str) > 0 /\ str[Len(str)] \in Whitespace
    THEN TrimEnd(SubSeq(str, 1, Len(str) - 1)) ELSE str

\* content.trim()
Trim(str) == TrimEnd(TrimStart(str))

\* completion.choices[0]?.message?.content: missing, or a string
Completions == {Undefined, Some(<<>>), Some(<<" ">>), Some(<<" ", "R", " ">>)}

\* completion.choices[0]?.message?.content?.trim() || ""
RuleContent(completion) ==
    IF completion = Undefined THEN <<>> ELSE Trim(CHOOSE c \in completion : TRUE)

RagRepoFilters == {<<>>, <<RepoId2>>}
IndexRepoLists == {<<>>, <<RepoId1, RepoId2>>}

\* How a generateRulesWithRAG call ends
RagOutcomes == {"ok", "index_failed", "embedding_failed", "query_failed", "llm_failed"}

\* generateRulesWithRAG(query, userId, repositoryIds, topK): the locals of a
\* call that got its search results
RagLocals(version, userId, repositoryIds, topK, searchResults) ==
    LET filteredResults == FilterByRepo(searchResults, repositoryIds)
        used == ContextMatches(filteredResults, topK)
        contextChunks == [i \in 1..Len(used) |-> used[i].metadata.content]
    IN  [called |-> TRUE,
         version |-> version,
         userId |-> userId,
         repositoryIds |-> repositoryIds,
         topK |-> topK,
         namespace |-> RagNamespace(version, userId),
         filter |-> [user_id |-> userId, type |-> "markdown"],
         searchResults |-> searchResults,
         used |-> used,
         contextChunks |-> contextChunks,
         context |-> JoinContext(contextChunks)]

\* The locals of a call that threw before it had search results
RagLocalsThrown(version, userId, repositoryIds, topK) ==
    RagLocals(version, userId, repositoryIds, topK, <<>>)

generateRulesWithRAG(version, userId, repositoryIds, topK) ==
    \E outcome \in RagOutcomes :
        /\ FaultAllowed(outcome)
        /\ faults' = FaultsAfter(outcome)
        /\ IF outcome \in {"index_failed", "embedding_failed", "query_failed"}
           THEN /\ rag' = RagLocalsThrown(version, userId, repositoryIds, topK)
                /\ ret' = Fail(outcome)
           ELSE \E searchResults \in QueryAnswers(pinecone, RagNamespace(version, userId),
                                                  [user_id |-> userId, type |-> "markdown"],
                                                  topK * 2) :
                    /\ rag' = RagLocals(version, userId, repositoryIds, topK, searchResults)
                    /\ IF outcome = "llm_failed"
                       THEN ret' = Fail(outcome)
                       ELSE \E completion \in Completions : ret' = Ok(RuleContent(completion))

\* The locals of generateRulesWithRAG are gone once another call begins
IndexMarkdownFiles ==
    /\ \E files \in FileLists, userId \in UserIds, repositoryIds \in IndexRepoLists :
          indexMarkdownFilesToPinecone(rag.version, files, userId, repositoryIds)
    /\ Cardinality(pinecone') <= MaxVectors
    /\ rag' = RagIdle(rag.version)
    /\ UNCHANGED <<chunkVars, appVars, dbVars, repositories, mcpVars>>

GenerateRulesWithRAG ==
    /\ \E userId \in UserIds, repositoryIds \in RagRepoFilters, topK \in 1..MaxTopK :
          generateRulesWithRAG(rag.version, userId, repositoryIds, topK)
    /\ UNCHANGED <<chunkVars, appVars, dbVars, repositories, pinecone, mcpVars>>

InitRag ==
    /\ ChunkIdle
    /\ InitDb
    /\ rag \in {RagIdle(version) : version \in RagVersions}
    /\ ret = NoRet
    /\ McpIdle
    /\ AppIdle

NextRag == IndexMarkdownFiles \/ GenerateRulesWithRAG

SpecRag == InitRag /\ [][NextRag]_vars

\* Files for the indexer alone: a document longer than CHUNK_SIZE, which is
\* cut into chunks, a short one, and one without content
LongFile == [path |-> <<"acme/app", "GUIDE.md">>, content |-> DistinctText(CHUNK_SIZE + 1)]

IndexFilePool ==
    { LongFile,
      [path |-> <<"acme/app", "README.md">>, content |-> <<1, 2, 3>>],
      [path |-> <<"acme/app", "empty.md">>, content |-> <<>>] }

IndexFileLists ==
    {<<f>> : f \in IndexFilePool} \cup {fs \in IndexFilePool \X IndexFilePool : fs[1] # fs[2]}

\* The arguments of the last call of the indexer
Indexing(version, files, userId, repositoryIds) ==
    [called |-> FALSE, version |-> version, indexing |-> TRUE,
     files |-> files, userId |-> userId, repositoryIds |-> repositoryIds]

\* A call of indexMarkdownFilesToPinecone on these files; a behaviour follows
\* one call, made on the index as Init leaves it
IndexFiles ==
    /\ "files" \notin DOMAIN rag
    /\ \E files \in IndexFileLists, userId \in UserIds, repositoryIds \in IndexRepoLists :
          /\ indexMarkdownFilesToPinecone(rag.version, files, userId, repositoryIds)
          /\ rag' = Indexing(rag.version, files, userId, repositoryIds)
    /\ UNCHANGED <<chunkVars, appVars, dbVars, repositories, mcpVars>>

NextIndex == IndexFiles

SpecIndex == InitRag /\ [][NextIndex]_vars

-----------------------------------------------------------------------------
(* app/actions/repo_actions: saveRepositories *)

MAX_FILE_SIZE == 100000
MAX_TOTAL_SIZE == 500000

\* topK: number = 10
DefaultTopK == 10

\* The repositories GitHub lists for the caller (GitHubRepo)
Repo1 == [id |-> 1, full_name |-> "acme/app", language |-> Some("TypeScript"),
          private |-> FALSE, html_url |-> Some("https://github.com/acme/app")]
Repo2 == [id |-> 2, full_name |-> "acme/lib", language |-> Undefined,
          private |-> FALSE, html_url |-> Some("https://github.com/acme/lib")]
Repo3 == [id |-> 3, full_name |-> "acme/secret", language |-> Some("TypeScript"),
          private |-> TRUE, html_url |-> Some("https://github.com/acme/secret")]
\* a repository object without html_url
RepoBad == [id |-> 2, full_name |-> "acme/lib", language |-> Undefined,
            private |-> FALSE, html_url |-> Undefined]

RepoLists == {<<>>, <<Repo1>>, <<Repo1, Repo2>>, <<Repo2, Repo3>>, <<Repo1, RepoBad>>}

\* saveRepositorySchema.parse(repoData) does not throw
ValidRepository(repo) == repo.html_url # Undefined

\* The id prisma gives the record created for a GitHub repository
RepositoryIdOf(github_id) == <<"r", CHOOSE d \in {"1", "2", "3"} : d = ToString(github_id)>>

\* prisma.repository.update / create in the loop over repos
SavedRepository(table, user, repo) ==
    LET existing == {r \in table : r.github_id = repo.id}
    IN  IF existing # {}
        THEN LET e == CHOOSE r \in existing : TRUE
             IN  [id |-> e.id, user_id |-> e.user_id, github_id |-> repo.id,
                  full_name |-> repo.full_name, language |-> repo.language,
                  is_private |-> repo.private, is_active |-> TRUE]
        ELSE [id |-> RepositoryIdOf(repo.id), user_id |-> user.id, github_id |-> repo.id,
              full_name |-> repo.full_name, language |-> repo.language,
              is_private |-> repo.private, is_active |-> TRUE]

RECURSIVE SaveLoop(_, _, _, _, _)
\* The loop over repos: the table and savedRepos after it, or after the
\* repository whose validation threw
SaveLoop(table, user, repos, k, savedRepos) ==
    IF k > Len(repos) THEN [table |-> table, savedRepos |-> savedRepos, threw |-> FALSE]
    ELSE IF ~ValidRepository(repos[k])
    THEN [table |-> table, savedRepos |-> savedRepos, threw |-> TRUE]
    ELSE LET saved == SavedRepository(table, user, repos[k])
         IN  SaveLoop({r \in table : r.github_id # saved.github_id} \cup {saved},
                      user, repos, k + 1, Append(savedRepos, saved))

\* prisma.repository.updateMany({ where: { user_id, id: { notIn: savedRepoIds } }, data: { is_active: false } })
Deactivated(table, user, savedRepos) ==
    LET savedRepoIds == {savedRepos[i].id : i \in 1..Len(savedRepos)}
    IN  {IF r.user_id = user.id /\ r.id \notin savedRepoIds
         THEN [r EXCEPT !.is_active = FALSE] ELSE r : r \in table}

\* What fetchMarkdownFilesFromRepo returns for a repository
RepoFiles(repo) ==
    IF repo.id = 1
    THEN <<[path |-> "README.md", content |-> <<1, 2, 3>>, size |-> 3],
           [path |-> "CHANGELOG.md", content |-> <<9>>, size |-> MAX_FILE_SIZE + 1],
           [path |-> "empty.md", content |-> <<>>, size |-> 0]>>
    ELSE <<[path |-> "docs/a.md", content |-> <<4, 5>>, size |-> 2]>>

RECURSIVE AcceptFilesPerRepository(_, _, _, _)
\* The loop over the files with a total that starts again for every repository
AcceptFilesPerRepository(repo, files, k, acc) ==
    LET own == IF k = 1 THEN [acc EXCEPT !.totalSize = 0] ELSE acc
    IN  IF k > Len(files) THEN own
        ELSE IF files[k].size > MAX_FILE_SIZE THEN AcceptFilesPerRepository(repo, files, k + 1, own)
        ELSE IF own.totalSize + files[k].size > MAX_TOTAL_SIZE THEN own
        ELSE AcceptFilesPerRepository(repo, files, k + 1,
                [filesWithContent |-> Append(own.filesWithContent,
                                        [path |-> <<repo.full_name, files[k].path>>,
                                         content |-> files[k].content,
                                         size |-> files[k].size]),
                 totalSize |-> own.totalSize + files[k].size])

RECURSIVE AcceptFiles(_, _, _, _)
\* The loop over the files of one repository; acc holds filesWithContent and totalSize
AcceptFiles(repo, files, k, acc) ==
    IF k > Len(files) THEN acc
    ELSE IF files[k].size > MAX_FILE_SIZE THEN AcceptFiles(repo, files, k + 1, acc)
    ELSE IF acc.totalSize + files[k].size > MAX_TOTAL_SIZE THEN acc
    ELSE AcceptFiles(repo, files, k + 1,
            [filesWithContent |-> Append(acc.filesWithContent,
                                    [path |-> <<repo.full_name, files[k].path>>,
                                     content |-> files[k].content,
                                     size |-> files[k].size]),
             totalSize |-> acc.totalSize + files[k].size])

RECURSIVE ContextLoop(_, _, _, _, _)
\* The loop over the public repositories; fetched[id] is what
\* fetchMarkdownFilesFromRepo returns for the repository id, and the fetch
\* fails for the positions in fetchFails
ContextLoop(fetched, repos, fetchFails, k, acc) ==
    IF k > Len(repos) THEN acc
    ELSE IF repos[k].private \/ k \in fetchFails
    THEN ContextLoop(fetched, repos, fetchFails, k + 1, acc)
    ELSE ContextLoop(fetched, repos, fetchFails, k + 1,
                     AcceptFiles(repos[k], fetched[repos[k].id], 1, acc))

\* The files of the repositories that saveRepositories is given
SavedRepoFiles == [id \in {Repo1.id, Repo2.id, Repo3.id} |-> RepoFiles([id |-> id])]

\* getMarkdownContextFromRepositories(repositories).filesWithContent
getMarkdownContextFromRepositories(repos, fetchFails) ==
    ContextLoop(SavedRepoFiles, repos, fetchFails, 1,
                [filesWithContent |-> <<>>, totalSize |-> 0]).filesWithContent

PublicRepos(repos) == {k \in 1..Len(repos) : ~repos[k].private}

HasContent(f) == Len(f.content) > 0

RECURSIVE UniqueLanguages(_, _, _)
\* [...new Set(savedRepos.map(r => r.language).filter(l => l !== null && l !== undefined))]
UniqueLanguages(savedRepos, k, acc) ==
    IF k > Len(savedRepos) THEN acc
    ELSE LET l == savedRepos[k].language
         IN  UniqueLanguages(savedRepos, k + 1,
                IF l = Undefined \/ \E i \in 1..Len(acc) : Some(acc[i]) = l
                THEN acc ELSE Append(acc, CHOOSE x \in l : TRUE))

\* The fallback text, which is built from the languages of the saved repositories
TemplateContent(uniqueLanguages) ==
    [source |-> "template",
     languages |-> uniqueLanguages,
     first |-> IF Len(uniqueLanguages) > 0 THEN uniqueLanguages[1] ELSE "TypeScript"]

RagContent(ruleContent) == [source |-> "rag", text |-> ruleContent]

\* prisma.rule.create({ data: { user_id, name, content, version: 1 } })
GeneratedRule(id, user, content) ==
    NewRule(id, user, [name |-> "Generated Rules from Repositories",
                       content |-> content,
                       repository_id |-> Undefined])

\* return { success: true, data: { repositories, generatedRule, ... } }
SaveData(savedRepos, generatedRule, files, counts) ==
    [repositories |-> savedRepos,
     generatedRule |-> generatedRule,
     totalMarkdownFiles |-> Len(files),
     counts |-> counts]

\* Step 3 of saveRepositories: the try around generateRulesWithRAG and its catch
GenerateAndStore(user, table, savedRepos, repositoryIds, files, index, counts, spent) ==
    \E outcome \in RagOutcomes :
        /\ Faulty(outcome) => spent < MaxFaults
        /\ faults' = IF Faulty(outcome) THEN spent + 1 ELSE spent
        /\ \E searchResults \in QueryAnswers(index, RagNamespace(rag.version, user.id),
                                             [user_id |-> user.id, type |-> "markdown"],
                                             DefaultTopK * 2),
              completion \in Completions :
              LET ruleContent == RuleContent(completion)
                  fallback == Faulty(outcome) \/ ruleContent = <<>>
                  generatedRule ==
                      GeneratedRule(nextId, user,
                          IF fallback
                          THEN TemplateContent(UniqueLanguages(savedRepos, 1, <<>>))
                          ELSE RagContent(ruleContent))
              IN  /\ rules' = rules \cup {generatedRule}
                  /\ nextId' = nextId + 1
                  /\ ret' = Ok(SaveData(savedRepos, generatedRule, files,
                                        IF fallback THEN Undefined ELSE Some(counts)))
        /\ repositories' = table
        /\ pinecone' = index

\* saveRepositories(repos) for a caller with a session
saveRepositories(caller, repos) ==
    LET user == UserOf(caller)
        loop == SaveLoop(repositories, user, repos, 1, <<>>)
        savedRepos == loop.savedRepos
        repositoryIds == [i \in 1..Len(savedRepos) |-> savedRepos[i].id]
    IN  /\ users' = UsersAfterGetOrCreate(caller)
        /\ IF loop.threw
           THEN /\ repositories' = loop.table
                /\ ret' = Fail("ZodError")
                /\ UNCHANGED <<rules, nextId, pinecone, faults>>
           ELSE \E fetchFails \in SubsetsUpTo(PublicRepos(repos), MaxFaults - faults) :
                  LET table == Deactivated(loop.table, user, savedRepos)
                      filesWithContent == getMarkdownContextFromRepositories(repos, fetchFails)
                      files == SelectSeq(filesWithContent, HasContent)
                      tasks == AllTasks(files)
                      spent == faults + Cardinality(fetchFails)
                  IN  \/ /\ spent < MaxFaults
                         /\ faults' = spent + 1
                         /\ repositories' = table
                         /\ ret' = Fail("PINECONE_API_KEY environment variable is not set")
                         /\ UNCHANGED <<rules, nextId, pinecone>>
                      \/ \E fails \in SubsetsUpTo(ValidTasks(tasks), MaxFaults - spent) :
                            LET index == UpsertTasks(pinecone, rag.version, user.id,
                                                     repositoryIds, tasks, fails, 1)
                            IN  GenerateAndStore(user, table, savedRepos, repositoryIds,
                                                 filesWithContent, index,
                                                 IndexCounts(tasks, fails),
                                                 spent + Cardinality(fails))

SaveRepositories ==
    /\ nextId <= MaxSaves
    /\ \E caller \in Callers :
          IF caller = NoSession
          THEN NotAuthenticated /\ UNCHANGED repositories
          ELSE \E repos \in RepoLists : saveRepositories(caller, repos)
    /\ rag' = RagIdle(rag.version)
    /\ UNCHANGED <<chunkVars, appVars, mcpVars>>

\* saveRepository(repo) for a caller with a session
saveRepository(caller, repo) ==
    LET user == UserOf(caller)
    IN  /\ users' = UsersAfterGetOrCreate(caller)
        /\ IF ~ValidRepository(repo)
           THEN /\ ret' = Fail("Validation failed")
                /\ UNCHANGED repositories
           ELSE LET saved == SavedRepository(repositories, user, repo)
                    table == {r \in repositories : r.github_id # saved.github_id} \cup {saved}
                IN  /\ repositories' = Deactivated(table, user, <<saved>>)
                    /\ ret' = Ok(saved)
        /\ UNCHANGED <<rules, nextId, pinecone, faults>>

SaveRepository ==
    /\ \E caller \in Callers :
          IF caller = NoSession
          THEN NotAuthenticated /\ UNCHANGED repositories
          ELSE \E repo \in {Repo1, Repo2, Repo3, RepoBad} : saveRepository(caller, repo)
    /\ UNCHANGED <<chunkVars, appVars, rag, mcpVars>>

InitSave ==
    /\ ChunkIdle
    /\ InitDb
    /\ rag \in {RagIdle(version) : version \in RagVersions}
    /\ ret = NoRet
    /\ McpIdle
    /\ AppIdle

NextSave == SaveRepositories

SpecSave == InitSave /\ [][NextSave]_vars

\* saveRepository alone: the calls of the repository picker
NextRepo == SaveRepository

SpecRepo == InitSave /\ [][NextRepo]_vars

\* The sizes GitHub reports for the files of a listing: the largest a file may
\* have, one byte more, and half of it
FileSizes == {MAX_FILE_SIZE, MAX_FILE_SIZE + 1, MAX_FILE_SIZE \div 2}

\* What fetchMarkdownFilesFromRepo can return for a repository: up to
\* MaxFiles files of these sizes
Listings ==
    UNION {[1..n -> FileSizes] : n \in 0..MaxFiles}

ListedFiles(sizes) ==
    [k \in 1..Len(sizes) |-> [path |-> "doc" \o ToString(k) \o ".md", content |-> <<k>>, size |-> sizes[k]]]

ContextRepoLists == {<<Repo1, Repo2>>, <<Repo2, Repo1>>, <<Repo1, Repo3, Repo2>>, <<Repo3, Repo2>>}

\* A call of getMarkdownContextFromRepositories alone; the files fetched and the
\* repositories of the call are kept with what it returns
GetMarkdownContext ==
    /\ ~ret.success
    /\ \E repos \in ContextRepoLists, first \in Listings, second \in Listings,
          fetchFails \in {{}, {1}} :
          LET fetched == [id \in {Repo1.id, Repo2.id, Repo3.id} |->
                            IF id = Repo1.id THEN ListedFiles(first)
                            ELSE IF id = Repo2.id THEN ListedFiles(second)
                            ELSE ListedFiles(<<MAX_FILE_SIZE>>)]
          IN  ret' = Ok([repositories |-> repos,
                         fetched |-> fetched,
                         fetchFails |-> fetchFails,
                         filesWithContent |->
                            ContextLoop(fetched, repos, fetchFails, 1,
                                        [filesWithContent |-> <<>>, totalSize |-> 0]).filesWithContent])
    /\ UNCHANGED <<chunkVars, appVars, dbVars, repositories, pinecone, faults, rag, mcpVars>>

NextContext == GetMarkdownContext

SpecContext == InitSave /\ [][NextContext]_vars

-----------------------------------------------------------------------------
(* The protocol endpoint: POST of app/api/mcp/route (two copies) *)

\* A string the handlers take apart is a sequence of pieces; the empty
\* sequence is the empty string. JSON values: null, numbers and strings.
Null == [t |-> "null", n |-> 0, s |-> <<>>]
Num(n) == [t |-> "num", n |-> n, s |-> <<>>]
Str(s) == [t |-> "str", n |-> 0, s |-> s]

\* !x for a destructured field x: undefined, null, 0 and "" are falsy
Falsy(opt) ==
    \/ opt = Undefined
    \/ \E v \in opt : \/ v.t = "null"
                     \/ (v.t = "num" /\ v.n = 0)
                     \/ (v.t = "str" /\ v.s = <<>>)

\* !header for a header value (a string or null)
Blank(opt) == opt = Undefined \/ opt = Some(<<>>)

\* str.startsWith(prefix), prefix being one piece
StartsWith(str, prefix) == Len(str) >= 1 /\ str[1] = prefix

\* The string a template literal makes of a value
Text(v) ==
    IF v.t = "str" THEN v.s
    ELSE IF v.t = "num" THEN <<ToString(v.n)>>
    ELSE <<"null">>

IsString(opt) == \E v \in opt : v.t = "str"

\* sha256 of the token, taken to be free of collisions
hashToken(token) == <<"sha256">> \o token

\* The two copies of the endpoint: one reads a bearer token, the other the
\* X-User-Id header
Endpoints == {"token", "header"}

\* Tokens and header values of the requests
TokenA == <<"inky_", "A">>
TokenB == <<"inky_", "B">>
TokenUnknown == <<"inky_", "Z">>
TokenNoPrefix == <<"A">>

AuthorizationHeaders ==
    { Undefined, Some(<<>>), Some(<<"Basic ", "inky_", "A">>),
      Some(<<"Bearer ">>), Some(<<"Bearer ">> \o TokenNoPrefix),
      Some(<<"Bearer ">> \o TokenUnknown), Some(<<"Bearer ">> \o TokenA),
      Some(<<"Bearer ">> \o TokenB) }

UserIdHeaders == {Undefined, Some(<<>>), Some(<<"clerk_z">>), Some(<<"clerk_a">>), Some(<<"clerk_b">>)}

\* The user records of the endpoint's database: both users hold a token
McpUsers ==
    { [id |-> UserIdOf("clerk_a"), clerk_id |-> "clerk_a",
       mcp_access_token |-> Some(hashToken(TokenA))],
      [id |-> UserIdOf("clerk_b"), clerk_id |-> "clerk_b",
       mcp_access_token |-> Some(hashToken(TokenB))] }

\* An exception thrown by the database or a provider: an Error with a
\* message, or a thrown value that is no Error
Errors == { [isError |-> TRUE, message |-> "connect ECONNREFUSED 10.0.0.5:5432"],
            [isError |-> TRUE, message |-> "Invalid prisma.rule.findMany() invocation: timed out"],
            [isError |-> FALSE, message |-> ""] }

\* What a database or provider call does: it answers, or throws
CallOutcomes == {Undefined} \cup {Some(err) : err \in Errors}

\* prisma.user.findUnique({ where: { mcp_access_token: tokenHash } })
UserByTokenHash(tokenHash) == {u \in users : u.mcp_access_token = Some(tokenHash)}

\* prisma.user.findUnique({ where: { clerk_id: userId } })
UserByClerkId(userId) == {u \in users : <<u.clerk_id>> = userId}

\* authenticateUser that takes any token with the prefix for the first user's
AuthenticateTokenUnhashed(token) ==
    IF token = <<>> \/ ~StartsWith(token, "inky_")
    THEN [user |-> {}, lookup |-> FALSE]
    ELSE [user |-> {u \in users : u.clerk_id = "clerk_a"}, lookup |-> TRUE]

\* authenticateUser(token) of the token copy: the user found (a set with at
\* most one element), and whether the database was asked
AuthenticateToken(token) ==
    IF token = <<>> \/ ~StartsWith(token, "inky_")
    THEN [user |-> {}, lookup |-> FALSE]
    ELSE [user |-> UserByTokenHash(hashToken(token)), lookup |-> TRUE]

\* authenticateUser(userId) of the header copy
AuthenticateHeader(userId) ==
    IF userId = <<>>
    THEN [user |-> {}, lookup |-> FALSE]
    ELSE [user |-> UserByClerkId(userId), lookup |-> TRUE]

\* NextResponse.json({ jsonrpc: "2.0", error: { code, message, data }, id }, { status });
\* id is Undefined where the body has no id key
ErrorResponse(status, code, message, data, id) ==
    [status |-> status,
     error |-> Some([code |-> code, message |-> message, data |-> data]),
     result |-> Undefined,
     id |-> id]

\* NextResponse.json({ jsonrpc: "2.0", result, id })
ResultResponse(payload, id) ==
    [status |-> 200, error |-> Undefined, result |-> Some(payload), id |-> id]

\* NextResponse.json({ jsonrpc: "2.0" }, { status: 200 })
EmptyResponse == [status |-> 200, error |-> Undefined, result |-> Undefined, id |-> Undefined]

\* id || null
IdOrNull(id) == IF Falsy(id) THEN Some(Null) ELSE id

\* What a handler did for a request: its response and the steps it took
Outcome(response, steps) == [resp |-> response, trace |-> steps]

\* The catch of the whole handler
UnexpectedError(steps) ==
    Outcome(ErrorResponse(500, -32603, "Internal error",
                          <<"An unexpected error occurred">>, Some(Null)), steps)

\* error instanceof Error ? error.message : fallback
MessageOr(err, fallback) == IF err.isError THEN <<err.message>> ELSE <<fallback>>

\* The request bodies: no text, blank text, text that is no JSON, the JSON
\* value null, or a JSON object with the fields the handlers read
BodyObject(method, id, params) ==
    [kind |-> "object", method |-> method, id |-> id, params |-> params]

NoArguments == [repository_id |-> Undefined, query |-> Undefined, rule_id |-> Undefined,
                top_k |-> Undefined]

Arguments ==
    { NoArguments,
      [NoArguments EXCEPT !.repository_id = Some(Str(<<"repo1">>))],
      [NoArguments EXCEPT !.repository_id = Some(Str(<<>>))],
      [NoArguments EXCEPT !.query = Some(Str(<<"style">>))],
      [NoArguments EXCEPT !.query = Some(Str(<<"style">>)),
                          !.repository_id = Some(Str(<<"repo1">>)), !.top_k = Some(Num(1))],
      [NoArguments EXCEPT !.rule_id = Some(Str(<<"1">>))],
      [NoArguments EXCEPT !.rule_id = Some(Str(<<"2">>))] }

ToolNames == { Undefined, Some(Str(<<>>)), Some(Str(<<"list_rules">>)),
               Some(Str(<<"search_rules">>)), Some(Str(<<"get_rule">>)),
               Some(Str(<<"delete_rule">>)) }

\* params of a tools/call request: absent, or { name, arguments }
CallParams ==
    {Undefined}
      \cup {Some([name |-> name, arguments |-> Undefined]) : name \in ToolNames}
      \cup {Some([name |-> name, arguments |-> Some(args)]) :
              name \in ToolNames \ {Undefined, Some(Str(<<>>))}, args \in Arguments}

Methods == { Undefined, Some(Str(<<>>)), Some(Num(5)),
             Some(Str(<<"initialize">>)), Some(Str(<<"tools/list">>)),
             Some(Str(<<"foo/bar">>)),
             Some(Str(<<"notifications/", "initialized">>)) }

Ids == {Undefined, Some(Null), Some(Num(0)), Some(Num(1)), Some(Str(<<"req-1">>))}

Bodies ==
    { [kind |-> "empty"], [kind |-> "blank"], [kind |-> "invalid"], [kind |-> "null"] }
      \cup {BodyObject(method, id, Undefined) : method \in Methods, id \in Ids}
      \cup {BodyObject(Some(Str(<<"tools/call">>)), id, params) : id \in Ids, params \in CallParams}

\* The POST requests
Requests ==
    { [endpoint |-> "token", authorization |-> h, userId |-> Undefined, body |-> b] :
          h \in AuthorizationHeaders, b \in Bodies }
      \cup
    { [endpoint |-> "header", authorization |-> Undefined, userId |-> h, body |-> b] :
          h \in UserIdHeaders, b \in Bodies }

RECURSIVE Joined(_)
\* The string that a sequence of pieces spells
Joined(s) == IF s = <<>> THEN "" ELSE s[1] \o Joined(Tail(s))

\* The select of the rule queries; created_at follows the order of creation,
\* which is the order of the ids
ListedRule(r) ==
    [id |-> r.id, name |-> r.name, content |-> r.content, version |-> r.version,
     is_active |-> r.is_active, repository_id |-> r.repository_id, created_at |-> r.id]

RECURSIVE NewestFirst(_)
\* orderBy: [{ created_at: "desc" }]
NewestFirst(S) ==
    IF S = {} THEN <<>>
    ELSE LET newest == CHOOSE r \in S : \A o \in S : o.id <= r.id
         IN  <<ListedRule(newest)>> \o NewestFirst(S \ {newest})

\* The where of list_rules without the user_id
RulesWhereAnyUser(user, repository_id) ==
    {r \in rules :
        ~Falsy(repository_id) =>
            \E v \in repository_id : \E x \in r.repository_id : v = Str(<<x>>)}

\* where: { user_id: user.id, ...(repository_id ? { repository_id } : {}) }
RulesWhere(user, repository_id) ==
    {r \in rules :
        /\ r.user_id = user.id
        /\ ~Falsy(repository_id) =>
              \E v \in repository_id : \E x \in r.repository_id : v = Str(<<x>>)}

\* prisma.rule.findMany of list_rules
ListRules(user, repository_id) == NewestFirst(RulesWhere(user, repository_id))

\* result: { content: [{ type: "text", text: JSON.stringify(value, null, 2) }] };
\* the text is kept as the value it spells
ContentResult(value) == [kind |-> "content", items |-> <<[type |-> "text", text |-> value]>>]

\* result: { tools: [...] }, by the names of the tools
ToolsResult(names) == [kind |-> "tools", items |-> names]

\* The result of initialize
InitializeResult ==
    [kind |-> "initialize",
     items |-> <<[protocolVersion |-> "2024-11-05", name |-> "inky-mcp-server",
                  version |-> "1.0.0"]>>]

\* const { name, arguments: toolArgs } = params || {}
ToolName(params) == IF params = Undefined THEN Undefined ELSE (CHOOSE p \in params : TRUE).name
ToolArgs(params) ==
    IF params = Undefined THEN NoArguments
    ELSE Coalesce((CHOOSE p \in params : TRUE).arguments, NoArguments)

\* The answer to an unknown tool, and to an unknown method
UnknownTool(name, id) ==
    ErrorResponse(404, -32601, "Method not found",
                  <<"Unknown tool: ">> \o Text(CHOOSE v \in name : TRUE), id)
UnknownMethod(method, id) ==
    ErrorResponse(404, -32601, "Method not found",
                  <<"Unknown method: ">> \o Text(CHOOSE v \in method : TRUE), id)
MissingToolName(id) ==
    ErrorResponse(400, -32602, "Invalid params", <<"Missing tool name">>, id)

\* list_rules of the token copy: the catch answers with a constant text
ListRulesToken(user, args, id, env, steps) ==
    IF env.call # Undefined
    THEN {Outcome(ErrorResponse(500, -32603, "Internal error", <<"Failed to list rules">>, id),
                  steps \cup {"list_rules"})}
    ELSE {Outcome(ResultResponse(ContentResult(ListRules(user, args.repository_id)), id),
                  steps \cup {"list_rules", "rules_read"})}

\* list_rules of the header copy: the catch answers with the error's message
ListRulesHeader(user, args, id, env, steps) ==
    IF env.call # Undefined
    THEN {Outcome(ErrorResponse(500, -32603, "Internal error",
                                MessageOr(CHOOSE err \in env.call : TRUE, "Failed to list rules"),
                                id),
                  steps \cup {"list_rules"})}
    ELSE {Outcome(ResultResponse(ContentResult(ListRules(user, args.repository_id)), id),
                  steps \cup {"list_rules", "rules_read"})}

\* filter: { user_id, ...(repository_id ? { repository_id } : {}), type: "rule" }
SearchFilter(user, repository_id) ==
    IF Falsy(repository_id)
    THEN [user_id |-> user.id, type |-> "rule"]
    ELSE [user_id |-> user.id, type |-> "rule",
          repository_id |-> Joined(Text(CHOOSE v \in repository_id : TRUE))]

\* const { top_k = 5 } = toolArgs
TopK(top_k) == IF top_k = Undefined THEN 5 ELSE (CHOOSE v \in top_k : TRUE).n

RECURSIVE RulesOfMatches(_, _)
\* The user's rules among the matches, in the order of their scores
RulesOfMatches(user, matches) ==
    IF matches = <<>> THEN <<>>
    ELSE LET found == {r \in rules : r.id = Head(matches).metadata.rule_id /\ r.user_id = user.id}
         IN  (IF found = {} THEN <<>> ELSE <<ListedRule(CHOOSE r \in found : TRUE)>>)
                \o RulesOfMatches(user, Tail(matches))

\* search_rules (token copy only)
SearchRules(user, args, id, env, steps) ==
    IF Falsy(args.query) \/ ~IsString(args.query)
    THEN {Outcome(ErrorResponse(400, -32602, "Invalid params",
                                <<"Missing or invalid query parameter">>, id), steps)}
    ELSE IF env.call # Undefined
    THEN {Outcome(ErrorResponse(500, -32603, "Internal error", <<"Failed to search rules">>, id),
                  steps \cup {"search_rules", "embedding"})}
    ELSE {Outcome(ResultResponse(ContentResult(RulesOfMatches(user, matches)), id),
                  steps \cup {"search_rules", "embedding", "vector_query", "rules_read"}) :
            matches \in QueryAnswers(pinecone, getUserPineconeNamespace(user.id),
                                     SearchFilter(user, args.repository_id), TopK(args.top_k))}

\* get_rule (token copy only)
GetRule(user, args, id, env, steps) ==
    IF Falsy(args.rule_id) \/ ~IsString(args.rule_id)
    THEN {Outcome(ErrorResponse(400, -32602, "Invalid params",
                                <<"Missing or invalid rule_id parameter">>, id), steps)}
    ELSE IF env.call # Undefined
    THEN {Outcome(ErrorResponse(500, -32603, "Internal error", <<"Failed to get rule">>, id),
                  steps \cup {"get_rule"})}
    ELSE LET found == {r \in rules : /\ Some(Str(<<ToString(r.id)>>)) = args.rule_id
                                     /\ r.user_id = user.id}
         IN  IF found = {}
             THEN {Outcome(ErrorResponse(404, -32602, "Invalid params", <<"Rule not found">>, id),
                           steps \cup {"get_rule", "rules_read"})}
             ELSE {Outcome(ResultResponse(ContentResult(<<ListedRule(CHOOSE r \in found : TRUE)>>), id),
                           steps \cup {"get_rule", "rules_read"})}

\* tools/call of the token copy
ToolsCallToken(user, body, env, steps) ==
    LET name == ToolName(body.params)
        args == ToolArgs(body.params)
        id == body.id
    IN  IF Falsy(name) THEN {Outcome(MissingToolName(id), steps)}
        ELSE IF name = Some(Str(<<"search_rules">>)) THEN SearchRules(user, args, id, env, steps)
        ELSE IF name = Some(Str(<<"get_rule">>)) THEN GetRule(user, args, id, env, steps)
        ELSE IF name = Some(Str(<<"list_rules">>)) THEN ListRulesToken(user, args, id, env, steps)
        ELSE {Outcome(UnknownTool(name, id), steps)}

\* The token copy once the caller is authenticated: req.json() and the dispatch
RequestToken(user, body, env, steps) ==
    IF body.kind # "object"
    THEN {UnexpectedError(steps \cup {"body_read"})}
    ELSE LET method == body.method
             id == body.id
             read == steps \cup {"body_read"}
         IN  IF Falsy(method) \/ Falsy(id)
             THEN {Outcome(ErrorResponse(400, -32600, "Invalid Request",
                                         <<"Missing method or id">>, IdOrNull(id)), read)}
             ELSE IF method = Some(Str(<<"tools/list">>))
             THEN {Outcome(ResultResponse(ToolsResult(<<"search_rules", "get_rule", "list_rules">>), id),
                           read)}
             ELSE IF method = Some(Str(<<"tools/call">>))
             THEN ToolsCallToken(user, body, env, read)
             ELSE {Outcome(UnknownMethod(method, id), read)}

\* POST of the token copy: the outcomes it can have for a request, env saying
\* which of its calls throw
PostTokenOutcomes(request, env) ==
    LET authHeader == request.authorization
    IN  IF Blank(authHeader) \/ ~StartsWith(Coalesce(authHeader, <<>>), "Bearer ")
        THEN {Outcome(ErrorResponse(401, -32001, "Unauthorized",
                                    <<"Missing or invalid Authorization header">>, Undefined), {})}
        ELSE LET auth == AuthenticateToken(Tail(Coalesce(authHeader, <<>>)))
                 asked == IF auth.lookup THEN {"user_lookup"} ELSE {}
             IN  IF auth.lookup /\ env.lookup # Undefined
                 THEN {UnexpectedError(asked \cup {"user_lookup_failed"})}
                 ELSE IF auth.user = {}
                 THEN {Outcome(ErrorResponse(401, -32001, "Unauthorized",
                                             <<"Invalid access token">>, Undefined), asked)}
                 ELSE RequestToken(CHOOSE u \in auth.user : TRUE, request.body, env, asked)

\* tools/call of the header copy
ToolsCallHeader(user, body, env, steps) ==
    LET name == ToolName(body.params)
        args == ToolArgs(body.params)
        id == body.id
    IN  IF Falsy(name) THEN {Outcome(MissingToolName(id), steps)}
        ELSE IF name = Some(Str(<<"list_rules">>)) THEN ListRulesHeader(user, args, id, env, steps)
        ELSE {Outcome(UnknownTool(name, id), steps)}

\* The header copy once the caller is authenticated: req.text(), JSON.parse
\* and the dispatch
RequestHeader(user, body, env, steps) ==
    LET read == steps \cup {"body_read"}
    IN  IF body.kind \in {"empty", "blank"}
        THEN {Outcome(ErrorResponse(400, -32600, "Invalid Request",
                                    <<"Request body is empty">>, Some(Null)), read)}
        ELSE IF body.kind = "invalid"
        THEN {Outcome(ErrorResponse(400, -32700, "Parse error",
                                    <<"Unexpected token in JSON">>, Some(Null)), read)}
        ELSE IF body.kind = "null"
        THEN {UnexpectedError(read)}
        ELSE LET method == body.method
                 id == body.id
             IN  IF Falsy(method)
                 THEN {Outcome(ErrorResponse(400, -32600, "Invalid Request",
                                             <<"Missing method. Received: ", "body">>,
                                             IdOrNull(id)), read)}
                 ELSE IF id = Undefined /\ ~IsString(method)
                 THEN {UnexpectedError(read)}
                 ELSE IF id = Undefined
                         /\ StartsWith((CHOOSE v \in method : TRUE).s, "notifications/")
                 THEN {Outcome(EmptyResponse, read)}
                 ELSE IF id = Undefined
                 THEN {Outcome(ErrorResponse(400, -32600, "Invalid Request",
                                             <<"Missing id for request method: ">>
                                                \o Text(CHOOSE v \in method : TRUE),
                                             Some(Null)), read)}
                 ELSE IF method = Some(Str(<<"initialize">>))
                 THEN {Outcome(ResultResponse(InitializeResult, id), read)}
                 ELSE IF method = Some(Str(<<"tools/list">>))
                 THEN {Outcome(ResultResponse(ToolsResult(<<"list_rules">>), id), read)}
                 ELSE IF method = Some(Str(<<"tools/call">>))
                 THEN ToolsCallHeader(user, body, env, read)
                 ELSE {Outcome(UnknownMethod(method, id), read)}

\* POST of the header copy
PostHeaderOutcomes(request, env) ==
    LET userId == request.userId
    IN  IF Blank(userId)
        THEN {Outcome(ErrorResponse(401, -32001, "Unauthorized",
                                    <<"Missing or invalid X-User-Id header">>, Undefined), {})}
        ELSE LET auth == AuthenticateHeader(Coalesce(userId, <<>>))
                 asked == IF auth.lookup THEN {"user_lookup"} ELSE {}
             IN  IF auth.lookup /\ env.lookup # Undefined
                 THEN {UnexpectedError(asked \cup {"user_lookup_failed"})}
                 ELSE IF auth.user = {}
                 THEN {Outcome(ErrorResponse(401, -32001, "Unauthorized",
                                             <<"Invalid user ID">>, Undefined), asked)}
                 ELSE RequestHeader(CHOOSE u \in auth.user : TRUE, request.body, env, asked)

\* Which calls of a request throw: the lookup of the user, and the call of the tool
Environments == [lookup : CallOutcomes, call : CallOutcomes]

\* One request to the token copy, answered
PostToken ==
    /\ req = NoReq
    /\ \E request \in Requests, env \in Environments :
          /\ request.endpoint = "token"
          /\ \E out \in PostTokenOutcomes(request, env) :
                /\ req' = request
                /\ resp' = out.resp
                /\ trace' = out.trace
    /\ UNCHANGED <<chunkVars, appVars, dbVars, repositories, pinecone, ret, faults, rag>>

\* One request to the header copy, answered
PostHeader ==
    /\ req = NoReq
    /\ \E request \in Requests, env \in Environments :
          /\ request.endpoint = "header"
          /\ \E out \in PostHeaderOutcomes(request, env) :
                /\ req' = request
                /\ resp' = out.resp
                /\ trace' = out.trace
    /\ UNCHANGED <<chunkVars, appVars, dbVars, repositories, pinecone, ret, faults, rag>>

\* The rules of the endpoint's database, in their order of creation
McpRuleInputs ==
    << <<"clerk_a", [name |-> "n1", content |-> "c1", repository_id |-> Some("repo1")]>>,
       <<"clerk_b", [name |-> "n2", content |-> "c2", repository_id |-> Some("repo1")]>>,
       <<"clerk_a", [name |-> "n3", content |-> "c3", repository_id |-> Undefined]>>,
       <<"clerk_a", [name |-> "n4", content |-> "c4", repository_id |-> Some("repo2")]>> >>

McpRule(i) ==
    NewRule(i, CHOOSE u \in McpUsers : u.clerk_id = McpRuleInputs[i][1], McpRuleInputs[i][2])

\* The endpoint serves a database that holds the first n of these rules, each
\* indexed as createRule indexes it
InitMcp ==
    /\ ChunkIdle
    /\ users = McpUsers
    /\ \E n \in 0..Len(McpRuleInputs) :
          /\ rules = {McpRule(i) : i \in 1..n}
          /\ nextId = n + 1
          /\ pinecone = {RuleVector(McpRule(i)) : i \in 1..n}
    /\ repositories = {}
    /\ ret = NoRet
    /\ faults = 0
    /\ rag = NoRag
    /\ McpIdle
    /\ AppIdle

NextMcp == PostToken \/ PostHeader

SpecMcp == InitMcp /\ [][NextMcp]_vars

-----------------------------------------------------------------------------
(* Claims about saveRepositories, checked under SpecSave *)

\* A saveRepositories call of an authenticated user with schema-valid
\* repositories in which a remote call failed
RemoteCallFailed == faults' > faults

\* C10: a saveRepositories call in which a remote call failed (documentation
\* fetch, obtaining the vector index, embedding, vector upsert or query, LLM
\* completion) returns success, and the rule it returns is newly stored and is
\* the template rule built from the repository metadata.
C10_FallbackOnRemoteFailure ==
    [][RemoteCallFailed =>
          /\ ret'.success
          /\ ret'.data.generatedRule \in rules' \ rules
          /\ ret'.data.generatedRule.content.source = "template"]_vars

-----------------------------------------------------------------------------
(* Claims about retrieval, checked under SpecRag *)

\* The records of the index that belong to a user: in the namespaced copy the
\* records of the user's namespace, in both copies those whose user_id is the user
OwnPartition(version, userId) ==
    {e \in pinecone : /\ e.metadata.user_id = userId
                      /\ version = "namespaced" => e.ns = getUserPineconeNamespace(userId)}

RagMatches == {rag.searchResults[i] : i \in 1..Len(rag.searchResults)}
                \cup {rag.used[i] : i \in 1..Len(rag.used)}

\* C1: whatever the other user has indexed, a generateRulesWithRAG call for a
\* user issues its query under the filter user_id = that user (and, in the
\* namespaced copy, in that user's namespace), every match it gets back is a
\* record of the user's own partition, and every chunk of the context it
\* assembles is the content of such a record: no chunk has another user's user_id.
C1_QueryScoped ==
    rag.called =>
        /\ rag.filter.user_id = rag.userId
        /\ rag.version = "namespaced" => rag.namespace = getUserPineconeNamespace(rag.userId)
        /\ \A m \in RagMatches :
              /\ m.metadata.user_id = rag.userId
              /\ m \in OwnPartition(rag.version, rag.userId)
        /\ Len(rag.contextChunks) = Len(rag.used)
        /\ \A i \in 1..Len(rag.used) : rag.contextChunks[i] = rag.used[i].metadata.content

\* A call that assembled a context while the other user's chunks were in the
\* part of the index the query ran on, or in the index at all for the namespaced copy
C1_Witness ==
    /\ rag.called
    /\ Len(rag.contextChunks) >= 1
    /\ \E e \in pinecone :
          /\ e.metadata.user_id # rag.userId
          /\ e.metadata.type = "markdown"
          /\ rag.version = "shared" => e.ns = rag.namespace

-----------------------------------------------------------------------------
(* Claims about chunkText, checked under SpecChunk *)

\* The claimed loop limit, written with the arguments as passed
ClaimedLimit == CeilDiv(Len(text), Max(1, chunkSize - overlap)) + 10

C3_ClampAndLimit ==
    /\ chunkSize >= 1 => SafeOverlap(chunkSize, overlap) <= chunkSize - 1
    /\ SafeOverlap(chunkSize, overlap) <= SafeChunkSize(chunkSize) - 1
    /\ iterations <= ClaimedLimit

RECURSIVE StripAndJoin(_, _, _)
StripAndJoin(cs, ov, i) ==
    IF i > Len(cs) THEN <<>>
    ELSE SubSeq(cs[i], ov + 1, Len(cs[i])) \o StripAndJoin(cs, ov, i + 1)

\* The first chunk followed by every later chunk without its first ov characters
Reconstruct(cs, ov) == IF Len(cs) = 0 THEN <<>> ELSE cs[1] \o StripAndJoin(cs, ov, 2)

\* C4: for a text longer than chunkSize and 0 <= overlap < chunkSize, each chunk
\* begins exactly chunkSize - overlap characters after the one before it, shares
\* exactly overlap characters with it, and the chunks with the overlaps removed
\* concatenate to the text.
C4_ExactOverlap ==
    (pc = "done" /\ chunkSize >= 1 /\ overlap < chunkSize /\ Len(text) > chunkSize) =>
        /\ \A i \in 1..(Len(spans) - 1) :
              /\ spans[i + 1][1] = spans[i][1] + (chunkSize - overlap)
              /\ spans[i][2] - spans[i + 1][1] = overlap
        /\ Reconstruct(result, overlap) = text

\* C5: for a non-empty text, chunkSize >= 1 and overlap >= 0, every character
\* position of the text lies inside a returned chunk, and a chunk ending at the
\* end of the text was emitted before the loop ended (also when the iteration
\* limit ended it).
C5_Coverage ==
    (pc = "done" /\ Len(text) >= 1 /\ chunkSize >= 1 /\ overlap >= 0) =>
        /\ Len(result) = Len(spans)
        /\ \A i \in 1..Len(spans) : result[i] = Slice(text, spans[i][1], spans[i][2])
        /\ \A p \in 0..(Len(text) - 1) :
              \E i \in 1..Len(spans) : spans[i][1] <= p /\ p < spans[i][2]
        /\ \E i \in 1..Len(spans) : spans[i][2] = Len(text)

\* C5 witness: the iteration limit ended the loop of a multi-chunk call.
C5_Witness ==
    /\ pc = "done"
    /\ chunkSize >= 1
    /\ Len(text) > chunkSize
    /\ start < Len(text)
    /\ iterations = MaxIterations(Len(text), chunkSize, overlap)

\* C6: the 2500-character text chunked with size 1000 and overlap 200 gives
\* exactly 3 chunks of lengths 1000, 1000 and 700, each consecutive pair sharing
\* exactly 200 characters.
C6_ScenarioA ==
    (pc = "done" /\ text = ScenarioText /\ chunkSize = CHUNK_SIZE /\ overlap = CHUNK_OVERLAP) =>
        /\ Len(result) = 3
        /\ Len(result[1]) = 1000
        /\ Len(result[2]) = 1000
        /\ Len(result[3]) = 700
        /\ \A i \in 1..2 :
              SubSeq(result[i], Len(result[i]) - 199, Len(result[i]))
                  = SubSeq(result[i + 1], 1, 200)

-----------------------------------------------------------------------------
(* Claims about rule versioning, checked under SpecRules *)

RuleById(id) == CHOOSE r \in rules : r.id = id

RECURSIVE RootOf(_)
\* The version-1 record a record's parent links lead back to
RootOf(r) ==
    IF r.parent_rule_id = Undefined THEN r.id
    ELSE RootOf(RuleById(CHOOSE p \in r.parent_rule_id : TRUE))

\* The records of one rule: those whose parent links lead back to root
History(root) == {r \in rules : RootOf(r) = root.id}

\* C2: after createRule and N successful updateRule calls on records of the
\* rule's history, the rule has exactly N+1 records, their versions are exactly
\* 1..N+1 with none repeated, and the parent links form one chain back to
\* version 1: no record has two children.
C2_LinearHistory ==
    \A root \in {r \in rules : r.parent_rule_id = Undefined} :
        LET H == History(root)
        IN  /\ root.version = 1
            /\ {r.version : r \in H} = 1..Cardinality(H)
            /\ \A r \in H : Cardinality({c \in H : c.parent_rule_id = Some(r.id)}) <= 1

\* C8: a successful updateRule on record r inserts exactly one record: its
\* version is r.version + 1, its parent link is r.id, its owner and repository
\* are r's, and its name and content are the patch's where the patch gives them
\* and r's where it does not.
C8_NewVersion ==
    [][ret'.success =>
       \A caller \in ClerkIds, input \in UpdateInputs :
          updateRule(caller, input) =>
              \E r \in rules, new \in rules' :
                  /\ r.id = input.id
                  /\ rules' \ rules = {new}
                  /\ new.id = ret'.data
                  /\ new.version = r.version + 1
                  /\ new.parent_rule_id = Some(r.id)
                  /\ new.user_id = r.user_id
                  /\ new.repository_id = r.repository_id
                  /\ new.name = (IF input.name = Undefined THEN r.name
                                 ELSE CHOOSE x \in input.name : TRUE)
                  /\ new.content = (IF input.content = Undefined THEN r.content
                                    ELSE CHOOSE x \in input.content : TRUE)]_vars

\* C8 witness: an update whose patch gave a name and no content has returned
\* the new version of a record that has a repository.
C8_Witness ==
    /\ ret.success
    /\ \E new \in rules, r \in rules :
          /\ new.id = ret.data
          /\ new.parent_rule_id = Some(r.id)
          /\ new.name # r.name
          /\ new.content = r.content
          /\ r.repository_id # Undefined

\* C9: no step of the rule actions, and so no updateRule, changes or removes a
\* rule record that existed before it (every field of the updated record stays
\* what it was), and an updateRule naming an id that is not a record of the
\* caller returns 'Rule not found' and leaves the set of rule records unchanged:
\* a step that ends otherwise is not such a call.
C9_AppendOnly ==
    [][/\ \A r \in rules : r \in rules'
       /\ \/ (ret' = Fail("Rule not found") /\ rules' = rules)
          \/ \A caller \in ClerkIds, input \in UpdateInputs :
                (ValidUpdate(input)
                    /\ ~\E r \in rules : r.id = input.id /\ r.user_id = UserIdOf(caller))
                => ~updateRule(caller, input)]_vars

\* C9 witness: a caller's update of another user's rule has returned
\* 'Rule not found' after an earlier update had added a second version.
C9_Witness ==
    /\ ret = Fail("Rule not found")
    /\ \E a \in rules, b \in rules : a.user_id # b.user_id
    /\ \E new \in rules, r \in rules : new.parent_rule_id = Some(r.id)

\* The records createRule or updateRule can have inserted in this step, as the
\* relational insert wrote them
InsertedRecords ==
    {NewRule(nextId, UserOf(caller), input) : caller \in ClerkIds, input \in CreateInputs}
      \cup {NewVersion(nextId, UserOf(caller), r, input) :
              caller \in ClerkIds, r \in rules, input \in UpdateInputs}

\* C11: a createRule or updateRule call in which the embedding call, the vector
\* upsert or the pinecone_id write-back failed returns success with the id of
\* the record it inserted; that record is stored exactly as inserted (no
\* pinecone_id, nothing else altered) and no other rule record is touched.
C11_IndexFailureSwallowed ==
    [][faults' > faults =>
          /\ ret'.success
          /\ \E new \in rules' \ rules :
                /\ rules' = rules \cup {new}
                /\ ret'.data = new.id
                /\ new \in InsertedRecords]_vars

\* A call whose write-back failed has returned: the vector is in the index and
\* the record carries no pinecone_id
C11_Witness ==
    /\ faults > 0
    /\ ret.success
    /\ \E r \in rules :
          /\ r.id = ret.data
          /\ r.pinecone_id = Undefined
          /\ r.parent_rule_id # Undefined
          /\ \E e \in pinecone : e.id = [kind |-> "rule", rule |-> r.id]

-----------------------------------------------------------------------------
(* Claims about rejected calls, checked under SpecSave *)

\* The call ended with 'Not authenticated' or with an input-validation failure
Rejected(r) ==
    /\ ~r.success
    /\ r.error \in {"Not authenticated", "Validation failed", "ZodError"}

\* C12: a server action that ends with 'Not authenticated' or with an
\* input-validation failure has created, updated or deleted no database record
\* and has made no remote call.
C12_RejectionHasNoEffect ==
    [][Rejected(ret') => UNCHANGED <<users, rules, nextId, repositories, pinecone, faults>>]_vars

-----------------------------------------------------------------------------
(* Claims about the protocol endpoint, checked under SpecMcp *)

\* A request has been answered
Answered == req # NoReq

\* The request names a user of the database: its bearer token is the one whose
\* hash a user record stores, or its X-User-Id is a user's clerk id
ValidCredentials(request) ==
    IF request.endpoint = "token"
    THEN \E h \in request.authorization :
            /\ StartsWith(h, "Bearer ")
            /\ \E u \in users : u.mcp_access_token = Some(hashToken(Tail(h)))
    ELSE \E h \in request.userId : \E u \in users : <<u.clerk_id>> = h

ErrorCode(response) == (CHOOSE e \in response.error : TRUE).code
ErrorData(response) == (CHOOSE e \in response.error : TRUE).data

\* The response is the error (status, code)
IsError(response, status, code) ==
    /\ response.status = status
    /\ response.error # Undefined
    /\ ErrorCode(response) = code
    /\ response.result = Undefined

\* The handler did nothing but look the user up
OnlyLookedUp == trace \subseteq {"user_lookup", "user_lookup_failed"}

\* C13 as stated: every POST without valid credentials is answered with HTTP
\* 401 and code -32001 before the body is parsed, no tool is executed and no
\* rule is read.  This fails when the lookup of the user throws.
C13_Original ==
    (Answered /\ ~ValidCredentials(req)) => (IsError(resp, 401, -32001) /\ OnlyLookedUp)

\* C13, amended: every POST without valid credentials is answered before the
\* body is parsed, with no tool executed and no rule read; the answer is HTTP
\* 401 with code -32001, unless the lookup of the user failed, and then it is
\* HTTP 500 with code -32603.
C13_Unauthorized ==
    (Answered /\ ~ValidCredentials(req)) =>
        /\ OnlyLookedUp
        /\ IF "user_lookup_failed" \in trace
           THEN IsError(resp, 500, -32603)
           ELSE IsError(resp, 401, -32001)

\* A list_rules call with an unknown token and one with an unknown user id are
\* turned away after the lookup
C13_Witness ==
    /\ Answered
    /\ ~ValidCredentials(req)
    /\ req.body.kind = "object"
    /\ req.body.method = Some(Str(<<"tools/call">>))
    /\ ToolName(req.body.params) = Some(Str(<<"list_rules">>))
    /\ rules # {}
    /\ trace = {"user_lookup"}
    /\ IsError(resp, 401, -32001)

\* The user a request with valid credentials names
Caller(request) ==
    CHOOSE u \in users :
        IF request.endpoint = "token"
        THEN \E h \in request.authorization : u.mcp_access_token = Some(hashToken(Tail(h)))
        ELSE request.userId = Some(<<u.clerk_id>>)

\* The request is a tools/call of the tool
CallOf(request, tool) ==
    /\ request.body.kind = "object"
    /\ request.body.method = Some(Str(<<"tools/call">>))
    /\ ToolName(request.body.params) = Some(Str(<<tool>>))

\* The repository a tools/call asks for, if any
AskedRepository(request) ==
    {Joined(v.s) : v \in {w \in ToolArgs(request.body.params).repository_id : ~Falsy(Some(w))}}

\* The records a list_rules call of the request is to return
OwnedRules(request) ==
    {r \in rules :
        /\ r.user_id = Caller(request).id
        /\ AskedRepository(request) # {} => r.repository_id = AskedRepository(request)}

\* The text of the one content item of the response
ListedText == (CHOOSE p \in resp.result : TRUE).items[1].text

Authenticated == Answered /\ ValidCredentials(req) /\ "user_lookup_failed" \notin trace

\* The request is a JSON object that carries an id
CarriesId(request) == request.body.kind = "object" /\ request.body.id # Undefined

\* C15: an authenticated request that carries an id and the method foo/bar,
\* or a tools/call of a tool that does not exist, is answered with HTTP 404
\* and code -32601, the request's id echoed.
C15_MethodNotFound ==
    (/\ Authenticated
     /\ CarriesId(req)
     /\ \/ req.body.method = Some(Str(<<"foo/bar">>))
        \/ CallOf(req, "delete_rule"))
       => (IsError(resp, 404, -32601) /\ resp.id = req.body.id)

\* The method of the request is a string that starts with "notifications/"
IsNotification(request) ==
    /\ request.body.kind = "object"
    /\ \E m \in request.body.method : m.t = "str" /\ StartsWith(m.s, "notifications/")

\* C16: every authenticated request whose method starts with "notifications/"
\* is acknowledged with HTTP 200 and neither a result nor an error, whatever
\* its id.
C16_NotificationAcknowledged ==
    (Authenticated /\ IsNotification(req)) =>
        /\ resp.status = 200
        /\ resp.error = Undefined
        /\ resp.result = Undefined

\* C17: an authenticated POST whose body is not valid JSON is answered with the
\* error code -32700, never with -32603.
C17_ParseError ==
    (Authenticated /\ req.body.kind = "invalid") =>
        (resp.error # Undefined /\ ErrorCode(resp) = -32700)

\* C18: no response with the error code -32603 carries the message of the
\* exception that was caught.
C18_NoExceptionText ==
    (Answered /\ resp.error # Undefined /\ ErrorCode(resp) = -32603) =>
        \A err \in Errors : err.isError => ErrorData(resp) # <<err.message>>

-----------------------------------------------------------------------------
(* Claims about indexMarkdownFilesToPinecone, checked under SpecIndex *)

RECURSIVE ChunkTotal(_)
\* The number of chunks of the files that have content
ChunkTotal(files) ==
    IF files = <<>> THEN 0
    ELSE (IF Head(files).content = <<>> THEN 0 ELSE Len(ChunksOf(Head(files))))
            + ChunkTotal(Tail(files))

RECURSIVE InvalidTotal(_)
\* The number of files skipped for having no content
InvalidTotal(files) ==
    IF files = <<>> THEN 0
    ELSE (IF Head(files).content = <<>> THEN 1 ELSE 0) + InvalidTotal(Tail(files))

\* The chunks of the files whose record is in the index
Stored(index, version, userId, repositoryIds, files) ==
    {k \in ValidTasks(AllTasks(files)) :
        MarkdownVector(version, userId, repositoryIds, AllTasks(files)[k]) \in index}

\* A call of the indexer has returned
Indexed == "files" \in DOMAIN rag

\* C19: a call of indexMarkdownFilesToPinecone fails only when the index cannot
\* be obtained; a call in which embedding or upsert calls fail returns counts
\* with indexed + failed = chunks of the valid files + invalid files, and
\* the chunks it counts as indexed are the ones stored.
C19_CountsAddUp ==
    Indexed =>
        IF ret.success
        THEN /\ ret.data.indexed + ret.data.failed = ChunkTotal(rag.files) + InvalidTotal(rag.files)
             /\ ret.data.failed >= InvalidTotal(rag.files)
             /\ ret.data.failed - InvalidTotal(rag.files) <= faults
             /\ Cardinality(Stored(pinecone, rag.version, rag.userId, rag.repositoryIds, rag.files))
                   = ret.data.indexed
        ELSE ret.error = "PINECONE_API_KEY environment variable is not set"

\* The first chunk of the long document failed and its second chunk was
\* indexed all the same, after a file that was skipped
C19_Witness ==
    /\ Indexed
    /\ faults > 0
    /\ ret.success
    /\ ret.data.indexed = Len(ChunksOf(LongFile)) - 1
    /\ ret.data.failed = 2
    /\ \E e \in pinecone : e.id.path = LongFile.path /\ e.id.chunk = 1
    /\ ~\E e \in pinecone : e.id.path = LongFile.path /\ e.id.chunk = 0

-----------------------------------------------------------------------------
(* Claims about getMarkdownContextFromRepositories, checked under SpecContext *)

RECURSIVE SumSizes(_)
SumSizes(files) == IF files = <<>> THEN 0 ELSE Head(files).size + SumSizes(Tail(files))

\* C20: the files one call of getMarkdownContextFromRepositories accepts have,
\* over all the repositories of the call, sizes that sum to at most
\* MAX_TOTAL_SIZE, and none of them is larger than MAX_FILE_SIZE.
C20_SizeCaps ==
    ret.success =>
        /\ SumSizes(ret.data.filesWithContent) <= MAX_TOTAL_SIZE
        /\ \A i \in 1..Len(ret.data.filesWithContent) :
              ret.data.filesWithContent[i].size <= MAX_FILE_SIZE

\* Two repositories with three files of the largest size each: the sixth file
\* is refused, for the first repository has used up three fifths of the total
C20_Witness ==
    /\ ret.success
    /\ ret.data.fetchFails = {}
    /\ \A id \in {Repo1.id, Repo2.id} :
          /\ Len(ret.data.fetched[id]) = MaxFiles
          /\ \A i \in 1..MaxFiles : ret.data.fetched[id][i].size = MAX_FILE_SIZE
    /\ SumSizes(ret.data.filesWithContent) = MAX_TOTAL_SIZE
    /\ Len(ret.data.filesWithContent) < 2 * MaxFiles
    /\ \E i, j \in 1..Len(ret.data.filesWithContent) :
          ret.data.filesWithContent[i].path[1] # ret.data.filesWithContent[j].path[1]

-----------------------------------------------------------------------------
(* Claims about generateRulesWithRAG's return value, checked under SpecRag *)

\* C22: a generateRulesWithRAG call that returns has not returned the empty
\* string as the rule text: a missing, empty or blank completion makes it fail.
C22_NeverEmptyRuleText ==
    (rag.called /\ ret.success) => ret.data # <<>>

-----------------------------------------------------------------------------
(* Rule server actions: searchRules *)

\* The characters of rule texts and queries, and the lower case of each
SearchAlphabet == {"a", "A", "b", "B"}
ToLower(c) == IF c = "A" THEN "a" ELSE IF c = "B" THEN "b" ELSE c

\* A comparison of the characters as they are
ContainsExact(hay, needle) ==
    \E i \in 0..(Len(hay) - Len(needle)) :
        \A j \in 1..Len(needle) : hay[i + j] = needle[j]

\* { contains: query, mode: "insensitive" }
ContainsInsensitive(hay, needle) ==
    \E i \in 0..(Len(hay) - Len(needle)) :
        \A j \in 1..Len(needle) : ToLower(hay[i + j]) = ToLower(needle[j])

\* The rules of the database searchRules works on, in their order of creation
SearchRuleInputs ==
    << <<"clerk_a", [name |-> <<"A", "b">>, content |-> <<"b">>, repository_id |-> Some("repo1")]>>,
       <<"clerk_b", [name |-> <<"a", "b">>, content |-> <<"a">>, repository_id |-> Some("repo1")]>>,
       <<"clerk_a", [name |-> <<"b">>, content |-> <<"B", "a">>, repository_id |-> Undefined]>>,
       <<"clerk_a", [name |-> <<"b", "b">>, content |-> <<"b">>, repository_id |-> Some("repo2")]>>,
       <<"clerk_a", [name |-> <<"a">>, content |-> <<"a", "b">>, repository_id |-> Some("repo1")]>> >>

SearchRule(i) == NewRule(i, UserOf(SearchRuleInputs[i][1]), SearchRuleInputs[i][2])

SearchQueries == {<<"a">>, <<"A", "B">>, <<"b", "a">>, <<>>}

\* How the vector path of a call ends, and how its text search ends
VectorOutcomes == {"ok", "embedding_failed", "index_failed", "query_failed", "find_failed"}
TextOutcomes == {"ok", "failed"}

\* where: { user_id, ...(repositoryId ? { repository_id } : {}), OR: [name contains, content contains] }
TextMatches(user, query, repositoryId) ==
    {r \in rules :
        /\ r.user_id = user.id
        /\ repositoryId # Undefined => r.repository_id = repositoryId
        /\ \/ ContainsInsensitive(r.name, query)
           \/ ContainsInsensitive(r.content, query)}

\* take: topK, orderBy: { created_at: "desc" }
TextSearch(user, query, repositoryId, topK) ==
    LET found == NewestFirst(TextMatches(user, query, repositoryId))
    IN  SubSeq(found, 1, Min(topK, Len(found)))

\* filter: { user_id, ...(repositoryId ? { repository_id } : {}), type: "rule" }
SearchRulesFilter(user, repositoryId) ==
    IF repositoryId = Undefined
    THEN [user_id |-> user.id, type |-> "rule"]
    ELSE [user_id |-> user.id, type |-> "rule", repository_id |-> Coalesce(repositoryId, "")]

\* The call of searchRules and the steps it took
SearchCall(caller, query, repositoryId, topK) ==
    [endpoint |-> "searchRules", caller |-> caller, query |-> query,
     repositoryId |-> repositoryId, topK |-> topK]

\* The text search after the vector path: lines 1574-1597
searchRulesFallback(user, query, repositoryId, topK, textEnd, steps) ==
    IF textEnd = "failed"
    THEN /\ ret' = Fail("Can't reach database server")
         /\ trace' = steps \cup {"text_search", "text_failed"}
    ELSE /\ ret' = Ok(TextSearch(user, query, repositoryId, topK))
         /\ trace' = steps \cup {"text_search"}

\* searchRules(query, repositoryId, topK) for an authenticated caller: lines 1512-1602
searchRules(caller, query, repositoryId, topK, vector, textEnd) ==
    LET user == UserOf(caller)
    IN  /\ users' = UsersAfterGetOrCreate(caller)
        /\ req' = SearchCall(caller, query, repositoryId, topK)
        /\ IF vector = "embedding_failed"
           THEN searchRulesFallback(user, query, repositoryId, topK, textEnd,
                                    {"embedding", "vector_failed"})
           ELSE IF vector = "index_failed"
           THEN searchRulesFallback(user, query, repositoryId, topK, textEnd,
                                    {"embedding", "index", "vector_failed"})
           ELSE IF vector = "query_failed"
           THEN searchRulesFallback(user, query, repositoryId, topK, textEnd,
                                    {"embedding", "index", "vector_query", "vector_failed"})
           ELSE \E matches \in QueryAnswers(pinecone, DefaultNamespace,
                                             SearchRulesFilter(user, repositoryId), topK) :
                   IF matches = <<>>
                   THEN searchRulesFallback(user, query, repositoryId, topK, textEnd,
                                            {"embedding", "index", "vector_query"})
                   ELSE IF vector = "find_failed"
                   THEN searchRulesFallback(user, query, repositoryId, topK, textEnd,
                                            {"embedding", "index", "vector_query", "rules_read",
                                             "vector_failed"})
                   ELSE /\ ret' = Ok(RulesOfMatches(user, matches))
                        /\ trace' = {"embedding", "index", "vector_query", "rules_read"}

\* One call of searchRules on the database
CallSearchRules ==
    /\ req = NoReq
    /\ \E caller \in Callers :
          IF caller = NoSession
          THEN /\ ret' = Fail("Not authenticated")
               /\ req' = SearchCall(caller, <<>>, Undefined, 1)
               /\ trace' = {}
               /\ UNCHANGED users
          ELSE \E query \in SearchQueries, repositoryId \in {Undefined, Some("repo1")},
                  topK \in 1..(MaxTopK + 1), vector \in VectorOutcomes, textEnd \in TextOutcomes :
                  searchRules(caller, query, repositoryId, topK, vector, textEnd)
    /\ UNCHANGED <<chunkVars, appVars, rules, nextId, repositories, pinecone, faults, rag, resp>>

\* The database holds the first n of the rules, of which the first ones are indexed
InitSearch ==
    /\ ChunkIdle
    /\ users = {}
    /\ \E n \in 0..Len(SearchRuleInputs) :
          /\ rules = {SearchRule(i) : i \in 1..n}
          /\ nextId = n + 1
          /\ \E m \in 0..n : pinecone = {RuleVector(SearchRule(i)) : i \in 1..m}
    /\ repositories = {}
    /\ ret = NoRet
    /\ faults = 0
    /\ rag = NoRag
    /\ McpIdle
    /\ AppIdle

NextSearch == CallSearchRules

SpecSearch == InitSearch /\ [][NextSearch]_vars

-----------------------------------------------------------------------------
(* Claims about searchRules, checked under SpecSearch *)

\* The rules of the caller in which the query occurs, whatever the case of
\* the letters, in the name or in the content
Lowered(s) == [i \in 1..Len(s) |-> ToLower(s[i])]
Infix(part, whole) ==
    \E i \in 1..(Len(whole) + 1) :
        /\ i + Len(part) - 1 <= Len(whole)
        /\ SubSeq(Lowered(whole), i, i + Len(part) - 1) = Lowered(part)
FallbackRules(call) ==
    {r \in rules :
        /\ r.user_id = UserIdOf(call.caller)
        /\ call.repositoryId # Undefined => r.repository_id = call.repositoryId
        /\ (Infix(call.query, r.name) \/ Infix(call.query, r.content))}

\* C21: a searchRules call whose vector path threw made the text search, and
\* unless that search itself failed it returns success with the newest of the
\* caller's rules that contain the query, at most topK of them, newest first.
C21_FallbackToTextSearch ==
    (req.endpoint = "searchRules" /\ "vector_failed" \in trace) =>
        /\ "text_search" \in trace
        /\ "text_failed" \in trace <=> ~ret.success
        /\ ret.success =>
              /\ Len(ret.data) = Min(req.topK, Cardinality(FallbackRules(req)))
              /\ \A i \in 1..Len(ret.data) :
                    \E r \in FallbackRules(req) :
                       /\ r.id = ret.data[i].id
                       /\ r.name = ret.data[i].name
                       /\ r.content = ret.data[i].content
              /\ \A i, j \in 1..Len(ret.data) :
                    i < j => ret.data[i].created_at > ret.data[j].created_at
              /\ \A r \in FallbackRules(req) :
                    (\A i \in 1..Len(ret.data) : ret.data[i].id # r.id) =>
                        \A i \in 1..Len(ret.data) : r.id < ret.data[i].id

\* The embedding call failed; of the caller's three rules that contain "a" in
\* some case, the two newest are returned, and not the other user's rule
C21_Witness ==
    /\ req.endpoint = "searchRules"
    /\ trace = {"embedding", "vector_failed", "text_search"}
    /\ req.caller = "clerk_a"
    /\ req.query = <<"a">>
    /\ req.repositoryId = Undefined
    /\ req.topK = 2
    /\ Cardinality(rules) = Len(SearchRuleInputs)
    /\ Cardinality(FallbackRules(req)) = 3
    /\ ret.success
    /\ Len(ret.data) = 2
    /\ ret.data[1].id = 5
    /\ ret.data[2].id = 3

-----------------------------------------------------------------------------
(* Rule server actions: deleteRule *)

\* How deleteRule's calls end: the vector delete (or obtaining the index for
\* it) throws, or the delete of the record throws
DeleteOutcomes == {"ok", "vector_delete_failed", "record_delete_failed"}

\* if (rule.pinecone_id) { try { await index.deleteOne(rule.pinecone_id) } catch { log } }
PineconeAfterDelete(rule, outcome) ==
    IF rule.pinecone_id # Undefined /\ outcome # "vector_delete_failed"
    THEN {v \in pinecone : Some(v.id) # rule.pinecone_id}
    ELSE pinecone

\* deleteRule(ruleId) for an authenticated caller: lines 1447-1491
deleteRule(caller, ruleId) ==
    IF FindRule(ruleId, UserOf(caller)) = {}
    THEN /\ users' = UsersAfterGetOrCreate(caller)
         /\ ret' = Fail("Rule not found")
         /\ UNCHANGED <<rules, nextId, pinecone, faults>>
    ELSE \E outcome \in DeleteOutcomes :
            LET rule == CHOOSE r \in FindRule(ruleId, UserOf(caller)) : TRUE
            IN  /\ FaultAllowed(outcome)
                /\ outcome = "vector_delete_failed" => rule.pinecone_id # Undefined
                /\ users' = UsersAfterGetOrCreate(caller)
                /\ pinecone' = PineconeAfterDelete(rule, outcome)
                /\ faults' = FaultsAfter(outcome)
                /\ IF outcome = "record_delete_failed"
                   THEN /\ ret' = Fail("Can't reach database server")
                        /\ UNCHANGED rules
                   ELSE /\ ret' = Ok(0)
                        /\ rules' = rules \ {rule}
                /\ UNCHANGED nextId

DeleteRule ==
    /\ \E caller \in Callers :
          IF caller = NoSession
          THEN NotAuthenticated
          ELSE \E ruleId \in 1..MaxRules : deleteRule(caller, ruleId)
    /\ UNCHANGED <<chunkVars, appVars, repositories, rag, mcpVars>>

NextDelete == CreateRule \/ UpdateRule \/ DeleteRule

SpecDelete == InitRules /\ [][NextDelete]_vars

-----------------------------------------------------------------------------
(* Claims about deleteRule, checked under SpecDelete *)

\* The ids of the rules that deleteRule has removed: records leave the table
\* in no other way
DeletedRuleIds == {id \in 1..(nextId - 1) : \A r \in rules : r.id # id}

\* C27: once deleteRule has returned success for a rule, the vector index
\* holds no entry for that rule, whatever calls failed before.
C27_DeletedRuleHasNoVector ==
    \A id \in DeletedRuleIds :
        \A v \in pinecone : v.metadata.type = "rule" => v.metadata.rule_id # id

-----------------------------------------------------------------------------
(* Claims about the owner of saved repositories, checked under SpecRepo *)

\* The records of the table that belong to other users than the given one
RecordsOfOthers(table, userId) == {r \in table : r.user_id # userId}

\* C25: after a successful saveRepository by a user the saved record belongs
\* to that user and is the user's only active repository, and the records of
\* other users are what they were before the call.
C25_SavesOnlyOwnRecords ==
    [][\A caller \in ClerkIds, repo \in {Repo1, Repo2, Repo3} :
          (saveRepository(caller, repo) /\ ret'.success) =>
              /\ ret'.data \in repositories'
              /\ ret'.data.user_id = UserIdOf(caller)
              /\ \A r \in repositories' :
                    (r.user_id = UserIdOf(caller) /\ r.is_active) <=> r = ret'.data
              /\ RecordsOfOthers(repositories', UserIdOf(caller))
                    = RecordsOfOthers(repositories, UserIdOf(caller))]_vars

-----------------------------------------------------------------------------
(* Access tokens: generateMCPAccessToken, getMCPConfig, revokeMCPToken and
   the endpoint's authenticateUser *)

\* generateMCPToken(): "inky_" and 32 random bytes, taken never to repeat;
\* nextId counts the tokens drawn
generateMCPToken(n) == <<"inky_", ToString(n)>>

TokenPool == {generateMCPToken(n) : n \in 1..MaxTokens} \cup {TokenUnknown, TokenNoPrefix}

\* prisma.user.update({ where: { id: user.id }, data: { mcp_access_token: value } })
\* after getOrCreateUser
UsersAfterTokenUpdate(caller, value) ==
    {IF u.clerk_id = caller THEN [u EXCEPT !.mcp_access_token = value] ELSE u :
        u \in UsersAfterGetOrCreate(caller)}

\* A revoke that leaves the stored hash in place
UsersAfterRevokeKept(caller) == UsersAfterGetOrCreate(caller)

\* revokeMCPToken's update: mcp_access_token: null
UsersAfterRevoke(caller) == UsersAfterTokenUpdate(caller, Undefined)

\* The tokens handed to their users, and whether each is the one its user
\* holds now: a new token or a revoke retires the user's earlier ones
Retired(handed, caller) ==
    {IF h.clerk_id = caller THEN [h EXCEPT !.current = FALSE] ELSE h : h \in handed}

TokenCall(name, caller, token) == [endpoint |-> name, caller |-> caller, token |-> token]

\* The body shared by the two actions that issue a token: draw, hash, store
\* the hash, return the token
IssueToken(name, caller, stored) ==
    LET token == generateMCPToken(nextId)
    IN  /\ nextId <= MaxTokens
        /\ nextId' = nextId + 1
        /\ req' = TokenCall(name, caller, token)
        /\ IF stored
           THEN /\ users' = UsersAfterTokenUpdate(caller, Some(hashToken(token)))
                /\ trace' = Retired(trace, caller)
                              \cup {[clerk_id |-> caller, token |-> token, current |-> TRUE]}
                /\ ret' = Ok(token)
           ELSE /\ users' = UsersAfterGetOrCreate(caller)
                /\ trace' = trace
                /\ ret' = Fail("Can't reach database server")

TokenUnchanged == UNCHANGED <<chunkVars, appVars, rules, repositories, pinecone, faults, rag, resp>>

NoTokenSession(name) ==
    /\ ret' = Fail("Not authenticated")
    /\ req' = TokenCall(name, NoSession, <<>>)
    /\ UNCHANGED <<users, nextId, trace>>

\* generateMCPAccessToken(): mcp_actions.ts lines 28-60
GenerateMCPAccessToken ==
    /\ \E caller \in Callers :
          IF caller = NoSession
          THEN NoTokenSession("generateMCPAccessToken")
          ELSE \E stored \in BOOLEAN : IssueToken("generateMCPAccessToken", caller, stored)
    /\ TokenUnchanged

\* getMCPConfig() of the copy that puts a bearer token in the configuration
GetMCPConfig ==
    /\ \E caller \in Callers :
          IF caller = NoSession
          THEN NoTokenSession("getMCPConfig")
          ELSE \E stored \in BOOLEAN : IssueToken("getMCPConfig", caller, stored)
    /\ TokenUnchanged

\* revokeMCPToken(): mcp_actions.ts lines 165-191
RevokeMCPToken ==
    /\ \E caller \in Callers :
          IF caller = NoSession
          THEN NoTokenSession("revokeMCPToken")
          ELSE /\ req' = TokenCall("revokeMCPToken", caller, <<>>)
               /\ UNCHANGED nextId
               /\ \E stored \in BOOLEAN :
                     IF stored
                     THEN /\ users' = UsersAfterRevoke(caller)
                          /\ trace' = Retired(trace, caller)
                          /\ ret' = Ok(<<>>)
                     ELSE /\ users' = UsersAfterGetOrCreate(caller)
                          /\ trace' = trace
                          /\ ret' = Fail("Can't reach database server")
    /\ TokenUnchanged

\* A request at the endpoint with `Authorization: Bearer <token>`: the user
\* authenticateUser finds for it, if any
AuthenticateUser ==
    /\ \E token \in TokenPool :
          LET found == AuthenticateToken(token).user
          IN  /\ req' = TokenCall("authenticateUser", NoSession, token)
              /\ ret' = IF found = {} THEN Fail("Unauthorized")
                        ELSE Ok(<<(CHOOSE u \in found : TRUE).clerk_id>>)
    /\ UNCHANGED <<users, nextId, trace>>
    /\ TokenUnchanged

InitToken ==
    /\ ChunkIdle
    /\ InitDb
    /\ rag = NoRag
    /\ ret = NoRet
    /\ McpIdle
    /\ AppIdle

NextToken == GenerateMCPAccessToken \/ GetMCPConfig \/ RevokeMCPToken \/ AuthenticateUser

SpecToken == InitToken /\ [][NextToken]_vars

-----------------------------------------------------------------------------
(* Claims about access tokens, checked under SpecToken *)

\* The users a token authenticates as at the endpoint
AcceptedAs(token) == {u.clerk_id : u \in AuthenticateToken(token).user}

\* The tokens that authenticate as the given user
AcceptedTokens(clerkId) == {token \in TokenPool : clerkId \in AcceptedAs(token)}

\* C24: at every moment a token authenticates exactly when it is the newest
\* one handed to its user and that user has not revoked since, and then as
\* that user; so at most one token per user authenticates.
C24_OnlyNewestToken ==
    /\ \A token \in TokenPool :
          AcceptedAs(token) = {h.clerk_id : h \in {x \in trace : x.token = token /\ x.current}}
    /\ \A clerkId \in ClerkIds : Cardinality(AcceptedTokens(clerkId)) <= 1
    /\ req.endpoint = "authenticateUser" =>
          (ret.success <=> \E h \in trace : h.token = req.token /\ h.current)

\* A user was handed two tokens and a request with the first one, made after
\* the second was handed out, is turned away, while the second is accepted
C24_Witness ==
    /\ req.endpoint = "authenticateUser"
    /\ ~ret.success
    /\ \E old, new \in trace :
          /\ old.clerk_id = new.clerk_id
          /\ old.token = req.token
          /\ ~old.current
          /\ new.current
          /\ AcceptedTokens(new.clerk_id) = {new.token}

-----------------------------------------------------------------------------
(* getOrCreateUser under concurrent server actions *)

\* The server actions in progress; each is at one step of getOrCreateUser:
\* before findUnique, after it (with or without a record), after create, or
\* thrown out of it
Actions == 1..MaxActions

ActionAt(clerkId, at) == [endpoint |-> "getOrCreateUser", clerk_id |-> clerkId, pc |-> at]

UserUnchanged ==
    UNCHANGED <<chunkVars, appVars, rules, nextId, repositories, pinecone, faults, rag, resp, trace>>

\* let user = await prisma.user.findUnique({ where: { clerk_id: clerkId } })
FindUnique ==
    /\ \E a \in Actions :
          /\ req[a].pc = "start"
          /\ req' = [req EXCEPT ![a].pc = IF \E u \in users : u.clerk_id = req[a].clerk_id
                                           THEN "found" ELSE "missing"]
    /\ UNCHANGED <<users, ret>>
    /\ UserUnchanged

\* if (!user) user = await prisma.user.create({ data: { clerk_id: clerkId } }):
\* clerk_id is a unique column, the insert of a second record for it throws
CreateUser ==
    /\ \E a \in Actions :
          /\ req[a].pc = "missing"
          /\ IF \E u \in users : u.clerk_id = req[a].clerk_id
             THEN /\ req' = [req EXCEPT ![a].pc = "failed"]
                  /\ ret' = Fail("Unique constraint failed on the fields: (clerk_id)")
                  /\ UNCHANGED users
             ELSE /\ req' = [req EXCEPT ![a].pc = "created"]
                  /\ users' = users \cup {UserOf(req[a].clerk_id)}
                  /\ UNCHANGED ret
    /\ UserUnchanged

\* return user: the action goes on with the record
ReturnUser ==
    /\ \E a \in Actions :
          /\ req[a].pc \in {"found", "created"}
          /\ req' = [req EXCEPT ![a].pc = "proceeded"]
    /\ ret' = Ok(0)
    /\ UNCHANGED users
    /\ UserUnchanged

\* Every action has been issued, each by one of the identities; none has
\* a user record yet
InitUser ==
    /\ ChunkIdle
    /\ InitDb
    /\ rag = NoRag
    /\ ret = NoRet
    /\ req \in [Actions -> {ActionAt(c, "start") : c \in ClerkIds}]
    /\ resp = NoResp
    /\ trace = {}
    /\ AppIdle

NextUser == FindUnique \/ CreateUser \/ ReturnUser

SpecUser == InitUser /\ [][NextUser]_vars

-----------------------------------------------------------------------------
(* Claims about getOrCreateUser, checked under SpecUser *)

\* C26: however the concurrent server actions of an identity without a user
\* record interleave, at most one record is created for it and no action
\* fails at the user-creation step.
C26_OneUserNoFailure ==
    /\ \A c \in ClerkIds : Cardinality({u \in users : u.clerk_id = c}) <= 1
    /\ \A a \in Actions : req[a].pc # "failed"

-----------------------------------------------------------------------------
(* Session server actions: createSession, updateSession, endSession *)

\* createSessionSchema: title of at least one character; optional context
CreateSessionInputs ==
    { [title |-> "", context |-> Undefined],
      [title |-> "t1", context |-> Undefined],
      [title |-> "t1", context |-> Some(<<"a">>)] }

ValidCreateSession(input) == input.title # ""

\* updateSessionSchema: id, and optionally title (non-empty), context, is_active
UpdateSessionInputs ==
    { [id |-> i, title |-> t, context |-> c, is_active |-> a] :
        i \in 1..MaxSessions, t \in {Undefined, Some("")},
        c \in {Undefined, Some(<<>>), Some(<<"b">>)},
        a \in {Undefined, Some(TRUE), Some(FALSE)} }

ValidUpdateSession(input) == input.title # Some("")

\* How the database write of a session action ends
SessionOutcomes == {"ok", "write_failed"}

\* The ids of the rules searchRules(context, repositoryId, 5) may return to
\* the session actions: those of the vector matches, those of the text
\* search, or none when it fails
LinkedRuleIds(user, context) ==
    LET ids(found) == {found[i].id : i \in 1..Len(found)}
    IN  {ids(RulesOfMatches(user, matches)) :
            matches \in QueryAnswers(pinecone, DefaultNamespace,
                                     SearchRulesFilter(user, Undefined), 5)}
        \cup {ids(TextSearch(user, context, Undefined, 5)), {}}

\* prisma.codingSession.create: is_active and ended_at take the defaults of
\* the schema
NewSession(id, user, validated) ==
    [id |-> id,
     user_id |-> user.id,
     title |-> validated.title,
     context |-> validated.context,
     is_active |-> TRUE,
     ended_at |-> Undefined,
     rule_ids |-> {}]

\* createSession(input) for an authenticated caller: lines 36-82
createSession(caller, input) ==
    IF ~ValidCreateSession(input)
    THEN /\ ret' = Fail("Validation failed")
         /\ UNCHANGED <<users, sessions>>
    ELSE \E outcome \in SessionOutcomes :
            LET user == UserOf(caller)
                session == NewSession(Cardinality(sessions) + 1, user, input)
            IN  /\ Cardinality(sessions) < MaxSessions
                /\ users' = UsersAfterGetOrCreate(caller)
                /\ IF outcome = "write_failed"
                   THEN /\ ret' = Fail("Can't reach database server")
                        /\ UNCHANGED sessions
                   ELSE /\ ret' = Ok(session.id)
                        /\ IF Blank(input.context)
                           THEN sessions' = sessions \cup {session}
                           ELSE \E ids \in LinkedRuleIds(user, Coalesce(input.context, <<>>)) :
                                   sessions' = sessions \cup {[session EXCEPT !.rule_ids = ids]}

\* prisma.codingSession.update of updateSession: a field left out of the
\* input keeps its value; ended_at is written only with is_active: false
UpdatedSession(existingSession, validated) ==
    [existingSession EXCEPT
        !.title = Coalesce(validated.title, existingSession.title),
        !.context = IF validated.context = Undefined THEN existingSession.context
                    ELSE validated.context,
        !.is_active = Coalesce(validated.is_active, existingSession.is_active),
        !.ended_at = IF validated.is_active = Some(FALSE) THEN Some("now")
                     ELSE existingSession.ended_at]

\* prisma.codingSession.findFirst({ where: { id, user_id } })
FindSession(id, user) == {s \in sessions : s.id = id /\ s.user_id = user.id}

\* updateSession(input) for an authenticated caller: lines 95-163
updateSession(caller, input) ==
    IF ~ValidUpdateSession(input)
    THEN /\ ret' = Fail("Validation failed")
         /\ UNCHANGED <<users, sessions>>
    ELSE IF FindSession(input.id, UserOf(caller)) = {}
    THEN /\ users' = UsersAfterGetOrCreate(caller)
         /\ ret' = Fail("Session not found")
         /\ UNCHANGED sessions
    ELSE \E outcome \in SessionOutcomes :
            LET user == UserOf(caller)
                existingSession == CHOOSE s \in FindSession(input.id, user) : TRUE
                session == UpdatedSession(existingSession, input)
            IN  /\ users' = UsersAfterGetOrCreate(caller)
                /\ IF outcome = "write_failed"
                   THEN /\ ret' = Fail("Can't reach database server")
                        /\ UNCHANGED sessions
                   ELSE /\ ret' = Ok(session.id)
                        /\ IF input.context = Undefined \/ input.context = existingSession.context
                           THEN sessions' = (sessions \ {existingSession}) \cup {session}
                           ELSE IF Blank(input.context)
                           THEN sessions' = (sessions \ {existingSession})
                                               \cup {[session EXCEPT !.rule_ids = {}]}
                           ELSE \E ids \in LinkedRuleIds(user, Coalesce(input.context, <<>>)) :
                                   sessions' = (sessions \ {existingSession})
                                                  \cup {[session EXCEPT !.rule_ids = ids]}

\* endSession(sessionId) for an authenticated caller: lines 280-301
endSession(caller, sessionId) ==
    IF FindSession(sessionId, UserOf(caller)) = {}
    THEN /\ users' = UsersAfterGetOrCreate(caller)
         /\ ret' = Fail("Session not found")
         /\ UNCHANGED sessions
    ELSE \E outcome \in SessionOutcomes :
            LET session == CHOOSE s \in FindSession(sessionId, UserOf(caller)) : TRUE
            IN  /\ users' = UsersAfterGetOrCreate(caller)
                /\ IF outcome = "write_failed"
                   THEN /\ ret' = Fail("Can't reach database server")
                        /\ UNCHANGED sessions
                   ELSE /\ ret' = Ok(session.id)
                        /\ sessions' = (sessions \ {session})
                              \cup {[session EXCEPT !.is_active = FALSE, !.ended_at = Some("now")]}

SessionUnchanged ==
    UNCHANGED <<chunkVars, rules, nextId, repositories, pinecone, faults, rag, mcpVars, ui, conn>>

NoSessionCaller ==
    /\ ret' = Fail("Not authenticated")
    /\ UNCHANGED <<users, sessions>>

CreateSession ==
    /\ \E caller \in Callers :
          IF caller = NoSession
          THEN NoSessionCaller
          ELSE \E input \in CreateSessionInputs : createSession(caller, input)
    /\ SessionUnchanged

UpdateSession ==
    /\ \E caller \in Callers :
          IF caller = NoSession
          THEN NoSessionCaller
          ELSE \E input \in UpdateSessionInputs : updateSession(caller, input)
    /\ SessionUnchanged

EndSession ==
    /\ \E caller \in Callers :
          IF caller = NoSession
          THEN NoSessionCaller
          ELSE \E sessionId \in 1..MaxSessions : endSession(caller, sessionId)
    /\ SessionUnchanged

\* The first user has two rules, one of them in the vector index
InitSession ==
    /\ ChunkIdle
    /\ users = {}
    /\ rules = {SearchRule(1), SearchRule(3)}
    /\ nextId = 4
    /\ pinecone = {RuleVector(SearchRule(1))}
    /\ repositories = {}
    /\ ret = NoRet
    /\ faults = 0
    /\ rag = NoRag
    /\ McpIdle
    /\ AppIdle

NextSession == CreateSession \/ UpdateSession \/ EndSession

SpecSession == InitSession /\ [][NextSession]_vars

-----------------------------------------------------------------------------
(* Claims about coding sessions, checked under SpecSession *)

\* C28: in every reachable state a coding session is active exactly when
\* its ended_at is unset.
C28_ActiveIffNotEnded ==
    \A s \in sessions : s.is_active <=> s.ended_at = Undefined

-----------------------------------------------------------------------------
(* The event stream of the protocol endpoint: GET *)

Conns == 1..MaxConns

\* No GET request has been made on the connection
NotConnected ==
    [state |-> "none", stream |-> "none", timer |-> FALSE, listening |-> FALSE,
     sent |-> <<>>, closes |-> 0, thrown |-> 0]

\* controller.close(): it closes a readable stream and throws a TypeError on
\* a stream that is closed already
ControllerClose(c) ==
    [c EXCEPT !.stream = "closed",
              !.closes = c.closes + 1,
              !.thrown = IF c.stream = "readable" THEN c.thrown ELSE c.thrown + 1]

\* start(controller): the first message, the ping timer and the abort listener
StartStream ==
    [state |-> "streaming", stream |-> "readable", timer |-> TRUE, listening |-> TRUE,
     sent |-> <<"notifications/initialized">>, closes |-> 0, thrown |-> 0]

StreamUnchanged ==
    UNCHANGED <<chunkVars, dbVars, repositories, pinecone, ret, faults, rag, mcpVars, sessions, ui>>

\* GET(req): 401 without a known X-User-Id, the stream otherwise
Get ==
    /\ \E k \in Conns, header \in UserIdHeaders :
          /\ conn[k].state = "none"
          /\ IF Blank(header) \/ AuthenticateHeader(Coalesce(header, <<>>)).user = {}
             THEN conn' = [conn EXCEPT ![k].state = "unauthorized"]
             ELSE conn' = [conn EXCEPT ![k] = StartStream]
    /\ StreamUnchanged

\* The setInterval callback: sendMessage(ping) in a try whose catch clears
\* the timer and closes the controller; controller.enqueue throws on a stream
\* that is not readable
PingTick ==
    /\ \E k \in Conns :
          /\ conn[k].timer
          /\ IF conn[k].stream = "readable"
             THEN /\ Len(conn[k].sent) <= MaxPings
                  /\ conn' = [conn EXCEPT ![k].sent = Append(conn[k].sent, "ping")]
             ELSE conn' = [conn EXCEPT ![k] = [ControllerClose(conn[k]) EXCEPT !.timer = FALSE]]
    /\ StreamUnchanged

\* The reader of the response cancels the stream (the client is gone): the
\* stream has no cancel callback, it only stops being readable
CancelStream ==
    /\ \E k \in Conns :
          /\ conn[k].stream = "readable"
          /\ conn' = [conn EXCEPT ![k].stream = "closed"]
    /\ StreamUnchanged

\* req.signal's abort event: clearInterval(pingInterval); controller.close()
Abort ==
    /\ \E k \in Conns :
          /\ conn[k].listening
          /\ conn' = [conn EXCEPT ![k] = [ControllerClose(conn[k]) EXCEPT !.timer = FALSE,
                                                                     !.listening = FALSE]]
    /\ StreamUnchanged

InitStream ==
    /\ ChunkIdle
    /\ users = McpUsers
    /\ rules = {}
    /\ nextId = 1
    /\ repositories = {}
    /\ pinecone = {}
    /\ faults = 0
    /\ rag = NoRag
    /\ ret = NoRet
    /\ McpIdle
    /\ sessions = {}
    /\ ui = NoUi
    /\ conn = [k \in Conns |-> NotConnected]

NextStream == Get \/ PingTick \/ CancelStream \/ Abort

SpecStream == InitStream /\ [][NextStream]_vars

-----------------------------------------------------------------------------
(* Claims about the event stream, checked under SpecStream *)

\* C30: on every connection the first event is notifications/initialized,
\* events are enqueued only on an open stream, and controller.close() is
\* called at most once, with the ping timer cleared by then.
C30_ClosedExactlyOnce ==
    \A k \in Conns :
        conn[k].state = "streaming" =>
            /\ conn[k].sent[1] = "notifications/initialized"
            /\ \A i \in 2..Len(conn[k].sent) : conn[k].sent[i] = "ping"
            /\ conn[k].closes <= 1
            /\ conn[k].closes >= 1 => ~conn[k].timer

-----------------------------------------------------------------------------
(* The onboarding dashboard: its React state, handlers and effects *)

TabValues == {"repositories", "rules", "tools"}
Tools == {"cursor", "claude"}

\* The dependencies of the effect that loads the configuration
EffectDeps(page) == <<page.activeTab, page.selectedTool, page.mcpConfig, page.loadingMcpConfig>>

\* The page after its first render, before any effect has run
Mounted ==
    [tab |-> "dashboard",
     activeTab |-> "repositories", selectedTool |-> "",
     generatingRules |-> FALSE, showProgressDialog |-> FALSE, progressStep |-> 0,
     saved |-> "none",
     mcpConfig |-> "", loadingMcpConfig |-> FALSE,
     effectDeps |-> <<>>,
     inFlight |-> 0, issued |-> 0, failed |-> FALSE, reissued |-> 0]

DashboardUnchanged ==
    UNCHANGED <<chunkVars, dbVars, repositories, pinecone, ret, faults, rag, mcpVars, sessions, conn>>

\* The Next button of the repositories tab: handleNextTab calls
\* handleSaveRepositoriesAndGenerateRules, which first shows the dialog
StartGenerating ==
    /\ ui.activeTab = "repositories"
    /\ ~ui.generatingRules
    /\ ~ui.showProgressDialog
    /\ ui' = [ui EXCEPT !.generatingRules = TRUE, !.showProgressDialog = TRUE,
                        !.progressStep = 1, !.saved = "none"]
    /\ DashboardUnchanged

\* The catch and finally blocks of the handler
GeneratingFailed(page) ==
    [page EXCEPT !.showProgressDialog = FALSE, !.generatingRules = FALSE]

\* The handler goes on after one of its awaits: the timeouts between the
\* steps, saveRepositories at step 3, and the end of the run
ContinueGenerating ==
    /\ ui.generatingRules
    /\ IF ui.progressStep \in {1, 2, 4}
       THEN ui' = [ui EXCEPT !.progressStep = ui.progressStep + 1]
       ELSE IF ui.progressStep = 3
       THEN \E outcome \in {"rule", "no_rule", "failed"} :
               IF outcome = "failed"
               THEN ui' = GeneratingFailed(ui)
               ELSE ui' = [ui EXCEPT !.progressStep = 4, !.saved = outcome]
       ELSE IF ui.progressStep = 5
       THEN IF ui.saved = "rule"
            THEN ui' = [ui EXCEPT !.progressStep = 6]
            ELSE ui' = GeneratingFailed(ui)
       ELSE ui' = [ui EXCEPT !.showProgressDialog = FALSE, !.activeTab = "rules",
                             !.generatingRules = FALSE]
    /\ DashboardUnchanged

\* <Dialog open={showProgressDialog} onOpenChange={setShowProgressDialog}>
OnOpenChange(page, open) == [page EXCEPT !.showProgressDialog = open]

\* The user presses Escape while the dialog is open: the dialog asks to close
EscapeKey ==
    /\ ui.tab = "dashboard"
    /\ ui.showProgressDialog
    /\ ui' = OnOpenChange(ui, FALSE)
    /\ DashboardUnchanged

\* The user clicks outside the dialog's content: the dialog asks to close
ClickOutside ==
    /\ ui.tab = "dashboard"
    /\ ui.showProgressDialog
    /\ ui' = OnOpenChange(ui, FALSE)
    /\ DashboardUnchanged

\* The user picks a tab: onValueChange, and the Back and Next buttons
SelectTab ==
    /\ ui.tab = "dashboard"
    /\ ~ui.showProgressDialog
    /\ \E v \in TabValues :
          /\ v # ui.activeTab
          /\ ui' = [ui EXCEPT !.activeTab = v, !.failed = FALSE]
    /\ DashboardUnchanged

\* onClick={() => setSelectedTool(tool)}
SelectTool ==
    /\ ui.tab = "dashboard"
    /\ ~ui.showProgressDialog
    /\ \E tool \in Tools :
          /\ tool # ui.selectedTool
          /\ ui' = [ui EXCEPT !.selectedTool = tool, !.failed = FALSE]
    /\ DashboardUnchanged

\* The effect with dependencies [activeTab, selectedTool, mcpConfig,
\* loadingMcpConfig, loadMCPConfig]: it runs after a render in which one of
\* them changed, and calls loadMCPConfig, which sets loadingMcpConfig and
\* sends the request
LoadMCPConfigEffect ==
    /\ ui.tab = "dashboard"
    /\ EffectDeps(ui) # ui.effectDeps
    /\ IF (ui.activeTab = "tools" \/ ui.selectedTool # "")
          /\ ui.mcpConfig = "" /\ ~ui.loadingMcpConfig
       THEN /\ ui.issued < MaxRequests
            /\ ui' = [ui EXCEPT !.effectDeps = EffectDeps(ui),
                                !.loadingMcpConfig = TRUE,
                                !.inFlight = ui.inFlight + 1,
                                !.issued = ui.issued + 1,
                                !.reissued = IF ui.failed THEN ui.reissued + 1 ELSE ui.reissued]
       ELSE ui' = [ui EXCEPT !.effectDeps = EffectDeps(ui)]
    /\ DashboardUnchanged

\* getMCPConfig answers: the configuration is stored, or a toast is shown;
\* finally loadingMcpConfig is reset
GetMCPConfigReturns ==
    /\ ui.tab = "dashboard"
    /\ ui.inFlight > 0
    /\ \E ok \in BOOLEAN :
          ui' = [ui EXCEPT !.inFlight = ui.inFlight - 1,
                           !.loadingMcpConfig = FALSE,
                           !.mcpConfig = IF ok THEN "config" ELSE ui.mcpConfig,
                           !.failed = ui.failed \/ ~ok]
    /\ DashboardUnchanged

InitDashboard ==
    /\ ChunkIdle
    /\ InitDb
    /\ rag = NoRag
    /\ ret = NoRet
    /\ McpIdle
    /\ sessions = {}
    /\ ui = Mounted
    /\ conn = NoConn

NextDashboard ==
    \/ StartGenerating \/ ContinueGenerating \/ EscapeKey \/ ClickOutside
    \/ SelectTab \/ SelectTool \/ LoadMCPConfigEffect \/ GetMCPConfigReturns

SpecDashboard == InitDashboard /\ [][NextDashboard]_vars

-----------------------------------------------------------------------------
(* Claims about the dashboard, checked under SpecDashboard *)

\* C23: while handleSaveRepositoriesAndGenerateRules is running the progress
\* dialog is open: no user event closes it before the run ends.
C23_DialogStaysOpen ==
    ui.generatingRules => ui.showProgressDialog

\* C29: at most one getMCPConfig request is in flight, and after a failed
\* request none is issued before the user changes the tab or the tool.
C29_NoRetryAfterFailure ==
    /\ ui.inFlight <= 1
    /\ ui.reissued = 0

=============================================================================
